---- MODULE Spec2Model ----
(***************************************************************************)
(* Streaming scan pipeline of Moon-Gazing-Tower.                           *)
(*                                                                         *)
(* The module holds several specifications over disjoint groups of         *)
(* variables; a specification leaves the other groups at their initial     *)
(* values:                                                                 *)
(*   Spec          the module chain: ModuleRun of SubdomainScan,           *)
(*                 DomainVerify, Crawler and DirScan with their forwarder  *)
(*                 and worker goroutines, queues and the shared context    *)
(*   SpecProgress  the progress tracker (service/pipeline/progress.go)     *)
(*   SpecDedup     one subdomain scan fed by concurrent sources, and the   *)
(*                 batch emission of Crawler and DirScan, with the         *)
(*                 duplicate checkers they ask                             *)
(*   SpecSink      the executor's save step and the scan-result collection *)
(*   SpecMonitor   the executor's task-status monitor and the running      *)
(*                 tasks it cancels                                        *)
(*   SpecTool      one run of an external tool (katana, spray): the        *)
(*                 scanner wrapper and the module's emission of its output *)
(*   SpecCall      single calls of the pure functions: buildCustomConfig,  *)
(*                 the URL and target helpers                              *)
(***************************************************************************)
EXTENDS Integers, Sequences, FiniteSets, TLC

VARIABLES
    \* ---- module chain (subdomain_module.go, crawler / dirscan modules) ----
    chain,            \* the modules of the chain, in order, with their settings
    cancelled,        \* the shared context is done
    fed,              \* number of records the predecessor has sent to module 1
    input,            \* BaseModule.input of each module: the queued records
    inClosed,         \* the input queue has been closed (CloseInput)
    mod,              \* per module: goroutine positions and local state
    \* ---- progress tracker (progress.go) ----
    moduleProgress,   \* ProgressTracker.moduleProgress: name -> entry
    moduleWeights,    \* ProgressTracker.moduleWeights: name -> weight
    enabledModules,   \* the argument of the last SetModuleWeights call
    \* ---- dedup (scanSubdomains, ActiveScanner, batch emission) ----
    scan,             \* one scanSubdomains call and its source goroutines
    crawl,            \* the batch emission of the Crawler, then of DirScan
    accepted,         \* records a duplicate checker let through, in order
    \* ---- result sink (executor save step, ResultService) ----
    rows,             \* the scan-result collection: the task's rows, in order
    lastAccepted,     \* per (type, key): the last record a write succeeded for
    lastWrite,        \* the last save: write calls made, record kept or not
    \* ---- task-status monitor (TaskExecutor) ----
    taskStatus,       \* the task store: status of each task, or "deleted"
    runningTasks,     \* TaskExecutor.runningTasks: the registered task ids
    ctxDone,          \* per task: the pipeline's context has been cancelled
    phase,            \* per task: its executeStreamingPipeline call
    monitor,          \* taskStatusMonitor: position and the ids still to check
    endStatus,        \* per task: its status when its result stream ended
    \* ---- one external tool run (katana, spray) and its module ----
    tool,             \* the run: tool process, output file, result, emission
    \* ---- one call of a function of the configuration / URL helpers ----
    call,              \* the function, its argument and, once applied, its result
    \* ---- DomainVerify with the records told apart ----
    verify,            \* records taken, check goroutines, resultChan, sent on
    \* ---- the executor's workers and the task queue ----
    exec,              \* queue, task store, workers, runningTasks with owners
    \* ---- progress callbacks and the stored task ----
    notify,            \* callbacks in flight, stored status and progress
    \* ---- SubdomainScan with several targets at once ----
    multi,             \* the shared ActiveScanner, the scans, the results sent
    \* ---- one DSL engine used by several fingerprint scans at once ----
    engine            \* e.mu, e.compiled and the goroutines calling the engine

plvars == <<chain, cancelled, fed, input, inClosed, mod>>

pvars == <<moduleProgress, moduleWeights, enabledModules>>

ddvars == <<scan, crawl, accepted>>

skvars == <<rows, lastAccepted, lastWrite>>

mvars == <<taskStatus, runningTasks, ctxDone, phase, monitor, endStatus>>

tvars == <<tool>>

cvars == <<call>>

vvars == <<verify>>

evars == <<exec>>

nvars == <<notify>>

xvars == <<multi>>

gvars == <<engine>>

vars == <<chain, cancelled, fed, input, inClosed, mod,
          moduleProgress, moduleWeights, enabledModules,
          scan, crawl, accepted, rows, lastAccepted, lastWrite,
          taskStatus, runningTasks, ctxDone, phase, monitor, endStatus,
          tool,
          call,
          verify,
          exec,
          notify,
          multi,
          engine>>

\* What no step of the chain changes: the chain itself and the variables of
\* the other specifications.
plframe == <<chain, pvars, ddvars, skvars, mvars, tvars, cvars, vvars, evars, nvars, xvars, gvars>>

\* What no step of the progress tracker changes.
pframe == <<plvars, ddvars, skvars, mvars, tvars, cvars, vvars, evars, nvars, xvars, gvars>>

\* What no step of the dedup model changes.
ddframe == <<plvars, pvars, skvars, mvars, tvars, cvars, vvars, evars, nvars, xvars, gvars>>

\* What no step of the sink changes.
skframe == <<plvars, pvars, ddvars, mvars, tvars, cvars, vvars, evars, nvars, xvars, gvars>>

\* What no step of the task-status monitor changes.
mframe == <<plvars, pvars, ddvars, skvars, tvars, cvars, vvars, evars, nvars, xvars, gvars>>

\* What no step of a tool run changes.
tframe == <<plvars, pvars, ddvars, skvars, mvars, cvars, vvars, evars, nvars, xvars, gvars>>

\* What no step of a function call changes.
cframe == <<plvars, pvars, ddvars, skvars, mvars, tvars, vvars, evars, nvars, xvars, gvars>>

\* What no step of the DomainVerify run changes.
vframe == <<plvars, pvars, ddvars, skvars, mvars, tvars, cvars, evars, nvars, xvars, gvars>>

\* What no step of a worker changes.
eframe == <<plvars, pvars, ddvars, skvars, mvars, tvars, cvars, vvars, nvars, xvars, gvars>>

\* What no step of a progress callback changes.
nframe == <<plvars, pvars, ddvars, skvars, mvars, tvars, cvars, vvars, evars, xvars, gvars>>

\* What no step of the scans of several targets changes.
xframe == <<plvars, pvars, ddvars, skvars, mvars, tvars, cvars, vvars, evars, nvars, gvars>>

\* What no step of a DSL engine call changes.
gframe == <<plvars, pvars, ddvars, skvars, mvars, tvars, cvars, vvars, evars, nvars, xvars>>

(***************************************************************************)
(* Generic helpers                                                         *)
(***************************************************************************)
Min(a, b) == IF a <= b THEN a ELSE b

RECURSIVE SumOver(_, _)
SumOver(S, f) ==
    IF S = {} THEN 0
    ELSE LET x == CHOOSE y \in S : TRUE IN f[x] + SumOver(S \ {x}, f)

RECURSIVE ProdOver(_, _)
ProdOver(S, f) ==
    IF S = {} THEN 1
    ELSE LET x == CHOOSE y \in S : TRUE IN f[x] * ProdOver(S \ {x}, f)

(***************************************************************************)
(* Module chain                                                            *)
(***************************************************************************)
\* Bounds of the chain model.
InputCap == 1        \* capacity of a module's input queue
ResultChanCap == 1   \* capacity of a module's resultChan
MaxFeed == 2         \* records the predecessor sends to the first module
Concurrency == 1     \* size of sem in the stream modes of Crawler / DirScan

\* The modules are numbered along the chain; the result stream stands
\* behind the last one as its nextModule.
NModules == Len(chain)
Terminal == NModules + 1

RemoveAt(s, k) == [j \in 1..(Len(s) - 1) |-> IF j < k THEN s[j] ELSE s[j + 1]]

\* One module of the chain.  katana / rad / spray: the module uses the tool
\* and the tool's IsAvailable() is true.
ModuleOf(name, batchMode, katana, rad, spray) ==
    [name |-> name, batchMode |-> batchMode,
     katana |-> katana, rad |-> rad, spray |-> spray]

SubdomainScanModule == ModuleOf("SubdomainScan", FALSE, FALSE, FALSE, FALSE)
DomainVerifyModule == ModuleOf("DomainVerify", FALSE, FALSE, FALSE, FALSE)
CrawlerModule(batchMode, katana, rad) ==
    ModuleOf("Crawler", batchMode, katana, rad, FALSE)
DirScanModule(batchMode, spray) ==
    ModuleOf("DirScan", batchMode, FALSE, FALSE, spray)

\* The chains that are run: adjacent stages of
\*   SubdomainScan -> DomainVerify -> ... -> Crawler -> DirScan.
Chains ==
    {<<SubdomainScanModule, DomainVerifyModule>>}
    \cup {<<DomainVerifyModule, CrawlerModule(b, k, r)>> :
             b \in BOOLEAN, k \in BOOLEAN, r \in {FALSE}}
    \cup {<<CrawlerModule(TRUE, k, r), DirScanModule(b, s)>> :
             k \in BOOLEAN, r \in BOOLEAN, b \in BOOLEAN, s \in BOOLEAN}

\* Record variants, by the Go type of the value on the queue.  An AssetHttp
\* with an empty URL is kept apart because the modules branch on it.
AssetHttpNoURL == "AssetHttp(URL=\"\")"

\* The variant no module of the chain consumes.
PassThrough == "PortAlive"

\* What the predecessor of the first module sends it.
FeedOf(name) ==
    CASE name = "SubdomainScan" -> {"string", PassThrough}
      [] name = "DomainVerify"  -> {"SubdomainResult", PassThrough}
      [] OTHER                  -> {"AssetHttp", AssetHttpNoURL, PassThrough}

\* A module that has not been started.
IdleModule ==
    [pc |-> "idle", hold |-> "", workers |-> <<>>,
     resultChan |-> <<>>, resClosed |-> FALSE,
     fpc |-> "idle", fhold |-> "",
     urlsToScan |-> {}, batchOut |-> <<>>, urlSeen |-> FALSE,
     skipped |-> FALSE, recvd |-> 0, sent |-> 0]

PipelineIdle ==
    /\ chain = <<SubdomainScanModule, DomainVerifyModule>>
    /\ cancelled = FALSE
    /\ fed = 0
    /\ input = [j \in 1..NModules |-> <<>>]
    /\ inClosed = [j \in 1..Terminal |-> FALSE]
    /\ mod = [j \in 1..NModules |-> IdleModule]

\* StreamingPipeline.Start: the chain is built and ModuleRun of the first
\* module is started.
PipelineInit ==
    /\ chain \in Chains
    /\ cancelled = FALSE
    /\ fed = 0
    /\ input = [j \in 1..NModules |-> <<>>]
    /\ inClosed = [j \in 1..Terminal |-> FALSE]
    /\ mod = [j \in 1..NModules |->
                 IF j = 1 THEN [IdleModule EXCEPT !.pc = "entry"] ELSE IdleModule]

\* m.nextModule.GetInput() <- item can proceed.
CanSend(j) == IF j = Terminal THEN TRUE ELSE Len(input[j]) < InputCap

\* The input queues after the send; the result stream is drained by the
\* task executor and is not kept.
SendTo(j, item) ==
    IF j = Terminal THEN input ELSE [input EXCEPT ![j] = Append(@, item)]

\* go func() { m.nextModule.ModuleRun() }()
StartNext(m, i) ==
    IF i + 1 <= NModules THEN [m EXCEPT ![i + 1].pc = "entry"] ELSE m

\* nextModuleRun.Wait() returns.
NextReturned(i) ==
    IF i + 1 = Terminal THEN TRUE ELSE mod[i + 1].pc = "returned"

CountIf(item) == IF item = PassThrough THEN 1 ELSE 0

IsStream(i) ==
    \/ chain[i].name \in {"SubdomainScan", "DomainVerify"}
    \/ chain[i].name = "Crawler" /\ ~(chain[i].batchMode /\ chain[i].katana)
    \/ chain[i].name = "DirScan" /\ ~chain[i].batchMode

\* What the external work started for one record hands back, in the order
\* it is pushed to resultChan.
Outcomes(name) ==
    CASE name = "SubdomainScan" -> {<<>>, <<"SubdomainResult">>}
      [] name = "DomainVerify"  ->
            {<<"SubdomainResult", "DomainResolve">>,
             <<"SubdomainResult", "TakeoverResult", "DomainResolve">>}
      [] OTHER                  -> {<<>>, <<"UrlResult">>}

\* CrawlerModule.ModuleRun with neither crawler available: the successor's
\* input is closed and the module returns; nothing is started.
CrawlerSkip(i) ==
    /\ mod[i].pc = "entry"
    /\ chain[i].name = "Crawler" /\ ~chain[i].katana /\ ~chain[i].rad
    /\ inClosed' = [inClosed EXCEPT ![i + 1] = TRUE]
    /\ mod' = [mod EXCEPT ![i].pc = "returned", ![i].skipped = TRUE]
    /\ UNCHANGED <<plframe, cancelled, fed, input>>

\* DirScanModule.ModuleRun with spray not available: returns an error.
DirScanSkip(i) ==
    /\ mod[i].pc = "entry"
    /\ chain[i].name = "DirScan" /\ ~chain[i].spray
    /\ mod' = [mod EXCEPT ![i].pc = "returned", ![i].skipped = TRUE]
    /\ UNCHANGED <<plframe, cancelled, fed, input, inClosed>>

ToolAvailable(i) ==
    CASE chain[i].name = "Crawler" -> chain[i].katana \/ chain[i].rad
      [] chain[i].name = "DirScan" -> chain[i].spray
      [] OTHER                     -> TRUE

\* Top of ModuleRun / runStreamMode: the successor's ModuleRun and the
\* forwarder goroutine are started.
StreamStart(i) ==
    /\ mod[i].pc = "entry"
    /\ ToolAvailable(i) /\ IsStream(i)
    /\ mod' = StartNext([mod EXCEPT ![i].pc = "select", ![i].fpc = "range"], i)
    /\ UNCHANGED <<plframe, cancelled, fed, input, inClosed>>

\* case <-m.ctx.Done() of the input loop.
StreamCtxDone(i) ==
    /\ mod[i].pc = "select" /\ IsStream(i)
    /\ cancelled
    /\ mod' = [mod EXCEPT ![i].pc = "wait"]
    /\ UNCHANGED <<plframe, cancelled, fed, input, inClosed>>

\* case data, ok := <-m.input with !ok.
StreamInputClosed(i) ==
    /\ mod[i].pc = "select" /\ IsStream(i)
    /\ input[i] = <<>> /\ inClosed[i]
    /\ mod' = [mod EXCEPT ![i].pc = "wait"]
    /\ UNCHANGED <<plframe, cancelled, fed, input, inClosed>>

\* case data, ok := <-m.input with a record, SubdomainScan / DomainVerify:
\* a record of the consumed type starts a worker goroutine, any other
\* record is logged as unexpected and the loop continues.
VerifyReceive(i) ==
    /\ mod[i].pc = "select"
    /\ chain[i].name \in {"SubdomainScan", "DomainVerify"}
    /\ input[i] # <<>>
    /\ LET data == Head(input[i])
           consumed ==
               IF chain[i].name = "SubdomainScan"
               THEN data \in {"string", "SubdomainResult"}
               ELSE data = "SubdomainResult"
       IN
       /\ input' = [input EXCEPT ![i] = Tail(@)]
       /\ \E out \in Outcomes(chain[i].name) :
             mod' = [mod EXCEPT
                       ![i].recvd = @ + CountIf(data),
                       ![i].workers =
                           IF consumed /\ out # <<>>
                           THEN Append(@, [st |-> "run", out |-> out])
                           ELSE @]
    /\ UNCHANGED <<plframe, cancelled, fed, inClosed>>

\* case data, ok := <-m.input with a record, Crawler / DirScan stream mode.
StreamReceive(i) ==
    /\ mod[i].pc = "select" /\ IsStream(i)
    /\ chain[i].name \in {"Crawler", "DirScan"}
    /\ input[i] # <<>>
    /\ input' = [input EXCEPT ![i] = Tail(@)]
    /\ mod' = [mod EXCEPT ![i].pc = "push", ![i].hold = Head(input[i]),
                          ![i].recvd = @ + CountIf(Head(input[i]))]
    /\ UNCHANGED <<plframe, cancelled, fed, inClosed>>

\* m.resultChan <- data / m.resultChan <- asset: a plain send.  An asset
\* with a URL then starts a worker goroutine, which first takes sem.
StreamPush(i) ==
    /\ mod[i].pc = "push"
    /\ Len(mod[i].resultChan) < ResultChanCap
    /\ mod' = [mod EXCEPT
                 ![i].pc = "select", ![i].hold = "",
                 ![i].resultChan = Append(@, mod[i].hold),
                 ![i].workers =
                     IF mod[i].hold = "AssetHttp"
                     THEN Append(@, [st |-> "acq", out |-> <<>>])
                     ELSE @]
    /\ UNCHANGED <<plframe, cancelled, fed, input, inClosed>>

Running(i) == {w \in 1..Len(mod[i].workers) : mod[i].workers[w].st = "run"}

\* sem <- struct{}{}, then the external tool runs and returns.
WorkerAcquire(i, w) ==
    /\ w \in 1..Len(mod[i].workers)
    /\ mod[i].workers[w].st = "acq"
    /\ Cardinality(Running(i)) < Concurrency
    /\ \E out \in Outcomes(chain[i].name) :
          mod' = [mod EXCEPT ![i].workers =
                     IF out = <<>> THEN RemoveAt(@, w)
                     ELSE [@ EXCEPT ![w] = [st |-> "run", out |-> out]]]
    /\ UNCHANGED <<plframe, cancelled, fed, input, inClosed>>

\* select { case <-m.ctx.Done(): return; case m.resultChan <- result: }
WorkerSend(i, w) ==
    /\ w \in 1..Len(mod[i].workers)
    /\ mod[i].workers[w].st = "run"
    /\ Len(mod[i].resultChan) < ResultChanCap
    /\ LET out == mod[i].workers[w].out IN
       mod' = [mod EXCEPT
                 ![i].resultChan = Append(@, Head(out)),
                 ![i].workers =
                     IF Tail(out) = <<>> THEN RemoveAt(@, w)
                     ELSE [@ EXCEPT ![w].out = Tail(out)]]
    /\ UNCHANGED <<plframe, cancelled, fed, input, inClosed>>

WorkerCtxDone(i, w) ==
    /\ w \in 1..Len(mod[i].workers)
    /\ mod[i].workers[w].st = "run"
    /\ cancelled
    /\ mod' = [mod EXCEPT ![i].workers = RemoveAt(@, w)]
    /\ UNCHANGED <<plframe, cancelled, fed, input, inClosed>>

\* close(m.resultChan) without allWg.Wait().
BadStreamWaitWorkers(i) ==
    /\ mod[i].pc = "wait"
    /\ mod' = [mod EXCEPT ![i].pc = "waitForwarder", ![i].resClosed = TRUE]
    /\ UNCHANGED <<plframe, cancelled, fed, input, inClosed>>

\* allWg.Wait(); close(m.resultChan)
StreamWaitWorkers(i) ==
    /\ mod[i].pc = "wait"
    /\ mod[i].workers = <<>>
    /\ mod' = [mod EXCEPT ![i].pc = "waitForwarder", ![i].resClosed = TRUE]
    /\ UNCHANGED <<plframe, cancelled, fed, input, inClosed>>

\* resultWg.Wait()
StreamWaitForwarder(i) ==
    /\ mod[i].pc = "waitForwarder"
    /\ mod[i].fpc = "done"
    /\ mod' = [mod EXCEPT ![i].pc = "waitNext"]
    /\ UNCHANGED <<plframe, cancelled, fed, input, inClosed>>

\* nextModuleRun.Wait(); return nil  (stream and batch mode)
WaitNext(i) ==
    /\ mod[i].pc = "waitNext"
    /\ NextReturned(i)
    /\ mod' = [mod EXCEPT ![i].pc = "returned"]
    /\ UNCHANGED <<plframe, cancelled, fed, input, inClosed>>

\* The module's own duplicate checker, asked about a UrlResult: true from
\* the second time on.  Only the Crawler asks it.
SeenURL(i) == mod[i].urlSeen

\* for result := range m.resultChan, one record taken.  The Crawler drops a
\* UrlResult its duplicate checker has seen.
ForwarderTake(i) ==
    /\ mod[i].fpc = "range"
    /\ mod[i].resultChan # <<>>
    /\ LET result == Head(mod[i].resultChan)
           checked == chain[i].name = "Crawler" /\ result = "UrlResult"
       IN
       mod' = [mod EXCEPT
                 ![i].resultChan = Tail(@),
                 ![i].urlSeen = @ \/ checked,
                 ![i].fhold = IF checked /\ SeenURL(i) THEN "" ELSE result,
                 ![i].fpc = IF checked /\ SeenURL(i) THEN "range" ELSE "send"]
    /\ UNCHANGED <<plframe, cancelled, fed, input, inClosed>>

\* case m.nextModule.GetInput() <- result
ForwarderSend(i) ==
    /\ mod[i].fpc = "send"
    /\ CanSend(i + 1)
    /\ input' = SendTo(i + 1, mod[i].fhold)
    /\ mod' = [mod EXCEPT ![i].fpc = "range", ![i].fhold = "",
                          ![i].sent = @ + CountIf(mod[i].fhold)]
    /\ UNCHANGED <<plframe, cancelled, fed, inClosed>>

\* case <-m.ctx.Done(): return  (the successor's input is left open)
ForwarderCtxDone(i) ==
    /\ mod[i].fpc = "send"
    /\ cancelled
    /\ mod' = [mod EXCEPT ![i].fpc = "done", ![i].fhold = ""]
    /\ UNCHANGED <<plframe, cancelled, fed, input, inClosed>>

\* The range loop ends on the closed resultChan: m.nextModule.CloseInput().
ForwarderClose(i) ==
    /\ mod[i].fpc = "range"
    /\ mod[i].resultChan = <<>> /\ mod[i].resClosed
    /\ inClosed' = [inClosed EXCEPT ![i + 1] = TRUE]
    /\ mod' = [mod EXCEPT ![i].fpc = "done"]
    /\ UNCHANGED <<plframe, cancelled, fed, input>>

\* Top of runBatchMode: the successor's ModuleRun is started.
BatchStart(i) ==
    /\ mod[i].pc = "entry"
    /\ ToolAvailable(i) /\ ~IsStream(i)
    /\ mod' = StartNext([mod EXCEPT ![i].pc = "collect"], i)
    /\ UNCHANGED <<plframe, cancelled, fed, input, inClosed>>

\* case <-m.ctx.Done() of the collection loop.
BatchCtxDone(i) ==
    /\ mod[i].pc = "collect"
    /\ cancelled
    /\ inClosed' = [inClosed EXCEPT ![i + 1] = TRUE]
    /\ mod' = [mod EXCEPT ![i].pc = "waitNext"]
    /\ UNCHANGED <<plframe, cancelled, fed, input>>

\* case data, ok := <-m.input with a record.
BatchReceive(i) ==
    /\ mod[i].pc = "collect"
    /\ input[i] # <<>>
    /\ input' = [input EXCEPT ![i] = Tail(@)]
    /\ mod' = [mod EXCEPT ![i].pc = "forward", ![i].hold = Head(input[i]),
                          ![i].recvd = @ + CountIf(Head(input[i]))]
    /\ UNCHANGED <<plframe, cancelled, fed, inClosed>>

\* urlsToScan after the record: an asset's URL is added once.
CollectURL(urls, data) == IF data = "AssetHttp" THEN urls \cup {"url"} ELSE urls

\* A collection step that keeps the record's URL but sends nothing on.
BadBatchForward(i) ==
    /\ mod[i].pc = "forward"
    /\ mod' = [mod EXCEPT ![i].pc = "collect", ![i].hold = "",
                          ![i].urlsToScan = CollectURL(@, mod[i].hold)]
    /\ UNCHANGED <<plframe, cancelled, fed, input, inClosed>>

\* select { case <-m.ctx.Done(): case m.nextModule.GetInput() <- data: },
\* the send taken; an AssetHttp with a URL is then collected.
BatchForward(i) ==
    /\ mod[i].pc = "forward"
    /\ CanSend(i + 1)
    /\ input' = SendTo(i + 1, mod[i].hold)
    /\ mod' = [mod EXCEPT ![i].pc = "collect", ![i].hold = "",
                          ![i].sent = @ + CountIf(mod[i].hold),
                          ![i].urlsToScan = CollectURL(@, mod[i].hold)]
    /\ UNCHANGED <<plframe, cancelled, fed, inClosed>>

\* The same select with ctx.Done() taken: the record is not sent.
BatchForwardCtxDone(i) ==
    /\ mod[i].pc = "forward"
    /\ cancelled
    /\ mod' = [mod EXCEPT ![i].pc = "collect", ![i].hold = "",
                          ![i].urlsToScan = CollectURL(@, mod[i].hold)]
    /\ UNCHANGED <<plframe, cancelled, fed, input, inClosed>>

\* What the batch tool run (katana -list, spray, rad) hands back.
BatchOutcomes == {<<>>, <<"UrlResult">>, <<"UrlResult", "UrlResult">>}

\* Input closed (goto processBatch) with nothing collected: the successor's
\* input is closed.
BatchInputClosedEmpty(i) ==
    /\ mod[i].pc = "collect"
    /\ input[i] = <<>> /\ inClosed[i]
    /\ mod[i].urlsToScan = {}
    /\ inClosed' = [inClosed EXCEPT ![i + 1] = TRUE]
    /\ mod' = [mod EXCEPT ![i].pc = "waitNext"]
    /\ UNCHANGED <<plframe, cancelled, fed, input>>

\* Input closed with URLs collected: katanaScanner.CrawlList /
\* sprayScanner.ScanBatchWithWordlist runs and returns.
BatchTool(i) ==
    /\ mod[i].pc = "collect"
    /\ input[i] = <<>> /\ inClosed[i]
    /\ mod[i].urlsToScan # {}
    /\ \E out \in BatchOutcomes :
          mod' = [mod EXCEPT ![i].pc = "emit", ![i].batchOut = out]
    /\ UNCHANGED <<plframe, cancelled, fed, input, inClosed>>

\* One result of the batch run: the Crawler skips a URL its duplicate
\* checker has seen, otherwise the result goes to the successor.
BatchEmit(i) ==
    /\ mod[i].pc = "emit"
    /\ mod[i].batchOut # <<>>
    /\ IF chain[i].name = "Crawler" /\ SeenURL(i)
       THEN /\ mod' = [mod EXCEPT ![i].batchOut = Tail(@)]
            /\ UNCHANGED input
       ELSE /\ CanSend(i + 1)
            /\ input' = SendTo(i + 1, Head(mod[i].batchOut))
            /\ mod' = [mod EXCEPT ![i].batchOut = Tail(@),
                                  ![i].urlSeen = chain[i].name = "Crawler"]
    /\ UNCHANGED <<plframe, cancelled, fed, inClosed>>

\* case <-m.ctx.Done() while emitting: return / goto cleanup.
BatchEmitCtxDone(i) ==
    /\ mod[i].pc = "emit"
    /\ mod[i].batchOut # <<>>
    /\ ~(chain[i].name = "Crawler" /\ SeenURL(i))
    /\ cancelled
    /\ mod' = [mod EXCEPT ![i].batchOut = <<>>,
                          ![i].urlSeen = chain[i].name = "Crawler"]
    /\ UNCHANGED <<plframe, cancelled, fed, input, inClosed>>

\* The batch results are through.  The Crawler with rad goes on to
\* crawlWithRad for the collected assets; otherwise the successor's input
\* is closed.
BatchEmitDone(i) ==
    /\ mod[i].pc = "emit"
    /\ mod[i].batchOut = <<>>
    /\ IF chain[i].name = "Crawler" /\ chain[i].rad
       THEN /\ \E out \in BatchOutcomes :
                  mod' = [mod EXCEPT ![i].pc = "rad", ![i].batchOut = out]
            /\ UNCHANGED inClosed
       ELSE /\ mod' = [mod EXCEPT ![i].pc = "waitNext"]
            /\ inClosed' = [inClosed EXCEPT ![i + 1] = TRUE]
    /\ UNCHANGED <<plframe, cancelled, fed, input>>

\* crawlWithRad in batch mode: case m.resultChan <- urlResult.
BatchRadPush(i) ==
    /\ mod[i].pc = "rad"
    /\ mod[i].batchOut # <<>>
    /\ Len(mod[i].resultChan) < ResultChanCap
    /\ mod' = [mod EXCEPT ![i].batchOut = Tail(@),
                          ![i].resultChan = Append(@, Head(mod[i].batchOut))]
    /\ UNCHANGED <<plframe, cancelled, fed, input, inClosed>>

\* crawlWithRad in batch mode: case <-m.ctx.Done(): return.
BatchRadCtxDone(i) ==
    /\ mod[i].pc = "rad"
    /\ mod[i].batchOut # <<>>
    /\ cancelled
    /\ mod' = [mod EXCEPT ![i].batchOut = <<>>]
    /\ UNCHANGED <<plframe, cancelled, fed, input, inClosed>>

\* After the rad loop: m.nextModule.CloseInput().
BatchRadDone(i) ==
    /\ mod[i].pc = "rad"
    /\ mod[i].batchOut = <<>>
    /\ inClosed' = [inClosed EXCEPT ![i + 1] = TRUE]
    /\ mod' = [mod EXCEPT ![i].pc = "waitNext"]
    /\ UNCHANGED <<plframe, cancelled, fed, input>>

\* The predecessor of the first module sends it a record.
Feed ==
    /\ fed < MaxFeed
    /\ ~inClosed[1]
    /\ Len(input[1]) < InputCap
    /\ \E item \in FeedOf(chain[1].name) :
          input' = [input EXCEPT ![1] = Append(@, item)]
    /\ fed' = fed + 1
    /\ UNCHANGED <<plframe, cancelled, inClosed, mod>>

\* The predecessor closes the first module's input.
CloseFirstInput ==
    /\ ~inClosed[1]
    /\ inClosed' = [inClosed EXCEPT ![1] = TRUE]
    /\ UNCHANGED <<plframe, cancelled, fed, input, mod>>

\* StreamingPipeline.Stop / cancelFunc: the context is cancelled.
Stop ==
    /\ ~cancelled
    /\ cancelled' = TRUE
    /\ UNCHANGED <<plframe, fed, input, inClosed, mod>>

\* The pipeline closes the result stream when ModuleRun of the first
\* module has returned.
CloseResults ==
    /\ mod[1].pc = "returned"
    /\ ~inClosed[Terminal]
    /\ inClosed' = [inClosed EXCEPT ![Terminal] = TRUE]
    /\ UNCHANGED <<plframe, cancelled, fed, input, mod>>

ModuleStep(i) ==
    \/ CrawlerSkip(i)
    \/ DirScanSkip(i)
    \/ StreamStart(i)
    \/ StreamCtxDone(i)
    \/ StreamInputClosed(i)
    \/ VerifyReceive(i)
    \/ StreamReceive(i)
    \/ StreamPush(i)
    \/ \E w \in 1..MaxFeed : WorkerAcquire(i, w)
    \/ \E w \in 1..MaxFeed : WorkerSend(i, w)
    \/ \E w \in 1..MaxFeed : WorkerCtxDone(i, w)
    \/ StreamWaitWorkers(i)
    \/ StreamWaitForwarder(i)
    \/ WaitNext(i)
    \/ ForwarderTake(i)
    \/ ForwarderSend(i)
    \/ ForwarderCtxDone(i)
    \/ ForwarderClose(i)
    \/ BatchStart(i)
    \/ BatchCtxDone(i)
    \/ BatchReceive(i)
    \/ BatchForward(i)
    \/ BatchForwardCtxDone(i)
    \/ BatchInputClosedEmpty(i)
    \/ BatchTool(i)
    \/ BatchEmit(i)
    \/ BatchEmitCtxDone(i)
    \/ BatchEmitDone(i)
    \/ BatchRadPush(i)
    \/ BatchRadCtxDone(i)
    \/ BatchRadDone(i)

\* The positions of a chain: every chain of Chains has two modules.
Positions == {1, 2}

\* Every step but the cancellation.
Run ==
    \/ \E i \in Positions : ModuleStep(i)
    \/ Feed
    \/ CloseFirstInput
    \/ CloseResults

PipelineNext == Run \/ Stop

(***************************************************************************)
(* Dedup: one subdomain scan with its concurrent sources, then the batch   *)
(* emission of the Crawler and of DirScan                                  *)
(***************************************************************************)
\* Bound of the dedup model.
MaxBatch == 2        \* results one batch tool run hands back

Hosts == {"api.x.com", "www.x.com"}
Sources == {"bruteforce", "fofa"}

\* URLs as the pieces the string functions look at: scheme, host, port, path.
UrlPlain == <<"https://", "x", "/p">>
UrlDefaultPort == <<"https://", "x", ":443", "/p">>
UrlHttp == <<"http://", "x", "/p">>
UrlEmpty == <<>>

IsPath(tok) == tok \in {"/", "/p"}

\* strings.Replace(rawURL, port + "/", "/", 1): the first port piece that a
\* path follows is taken out.
RECURSIVE ReplacePortSlash(_, _)
ReplacePortSlash(rawURL, port) ==
    IF Len(rawURL) < 2 THEN rawURL
    ELSE IF rawURL[1] = port /\ IsPath(rawURL[2]) THEN Tail(rawURL)
    ELSE <<rawURL[1]>> \o ReplacePortSlash(Tail(rawURL), port)

\* if strings.HasSuffix(rawURL, port) { rawURL = rawURL[:len(rawURL)-len(port)] }
TrimPortSuffix(rawURL, port) ==
    IF rawURL # <<>> /\ rawURL[Len(rawURL)] = port
    THEN SubSeq(rawURL, 1, Len(rawURL) - 1)
    ELSE rawURL

\* len(s) of a piece and of a URL, in bytes.
TokLen(tok) ==
    CASE tok = "https://" -> 8
      [] tok = "http://" -> 7
      [] tok = "x" -> 1
      [] tok = ":443" -> 4
      [] tok = ":80" -> 3
      [] tok = ":8080" -> 5
      [] tok = "/p" -> 2
      [] tok = "/" -> 1

StrLen(rawURL) ==
    LET L[i \in 0..Len(rawURL)] ==
            IF i = 0 THEN 0 ELSE L[i - 1] + TokLen(rawURL[i])
    IN L[Len(rawURL)]

\* The body both normalizers share: ":443" is taken out of a URL longer
\* than 4 bytes, then ":80" out of a URL longer than 3 bytes, whatever the
\* scheme.
RemoveDefaultPorts(rawURL) ==
    IF rawURL = <<>> THEN rawURL
    ELSE LET a == IF StrLen(rawURL) > 4
                  THEN TrimPortSuffix(ReplacePortSlash(rawURL, ":443"), ":443")
                  ELSE rawURL
         IN IF StrLen(a) > 3
            THEN TrimPortSuffix(ReplacePortSlash(a, ":80"), ":80")
            ELSE a

normalizeServiceURL(rawURL) == RemoveDefaultPorts(rawURL)

UrlResults == [input : {UrlPlain, UrlHttp},
               output : {UrlPlain, UrlDefaultPort, UrlHttp}]

\* What spray finds: paths under one host.
SprayResults == [input : {UrlHttp}, output : {UrlHttp}]

RECURSIVE SeqsUpTo(_, _)
SeqsUpTo(S, n) ==
    IF n = 0 THEN {<<>>}
    ELSE LET shorter == SeqsUpTo(S, n - 1)
         IN shorter \cup {Append(q, x) : q \in shorter, x \in S}

Count(s, x) == Cardinality({k \in 1..Len(s) : s[k] = x})

ScanStart(probe) ==
    [enableHTTPProbe |-> probe, ctxDone |-> FALSE,
     pc |-> "input",          \* ModuleRun at its select on m.input
     processed |-> 0,         \* the tracker's processed count of the module
     output |-> 0,            \* the tracker's output count of the module
     sentOn |-> 0,            \* results the forwarder has sent on
     fwdStopped |-> FALSE,    \* the forwarder returned on ctx.Done
     counted |-> 0,           \* results the executor has taken off the stream
     results |-> {},          \* ActiveScanner.results
     subdomains |-> {},       \* the module's duplicate checker, subdomain set
     src |-> [s \in Sources |->
                 [pc |-> "run", cur |-> "", delivered |-> {}, snap |-> <<>>]],
     collectedSubdomains |-> <<>>, collectedResults |-> <<>>,
     emitted |-> <<>>]

CrawlStart ==
    [pc |-> "idle", urls |-> <<>>,
     seen |-> {},             \* the Crawler's duplicate checker, URL set
     dropped |-> 0, sent |-> <<>>]

DedupIdle ==
    /\ scan = ScanStart(FALSE)
    /\ crawl = CrawlStart
    /\ accepted = <<>>

DedupInit ==
    /\ scan \in {ScanStart(probe) : probe \in BOOLEAN}
    /\ crawl = CrawlStart
    /\ accepted = <<>>

\* DuplicateChecker.IsSubdomainDuplicate, the test; the caller's step also
\* adds the key, both under the checker's lock.
IsSubdomainDuplicate(subdomains, h) == h \in subdomains

\* DuplicateChecker.IsURLDuplicate, the test: URLs are compared normalized.
IsURLDuplicate(seen, url) == normalizeServiceURL(url) \in seen

\* BaseModule.ReportProgress(processed, total) and ReportOutput(count) of the
\* module: the processed_inc and output_inc events of the module's entry.
ReportProgress(sc, count) == [sc EXCEPT !.processed = @ + count]

ReportOutput(sc, count) == [sc EXCEPT !.output = @ + count]

\* ModuleRun takes the root domain off m.input: processedCount++,
\* m.ReportProgress(1, 0), and the scan of the domain is started.
ReceiveDomain ==
    /\ scan.pc = "input"
    /\ scan' = [ReportProgress(scan, 1) EXCEPT !.pc = "scan"]
    /\ UNCHANGED <<crawl, accepted, ddframe>>

\* ... case <-m.ctx.Done(): the module returns without scanning.
InputCtxDone ==
    /\ scan.pc = "input" /\ scan.ctxDone
    /\ scan' = [scan EXCEPT !.pc = "done",
                            !.src = [s \in Sources |-> [@[s] EXCEPT !.pc = "done"]]]
    /\ UNCHANGED <<crawl, accepted, ddframe>>

\* The forwarder of the module, for result := range m.resultChan:
\* m.ReportOutput(1), then the result is sent to the next module.
ForwardResult ==
    /\ ~scan.fwdStopped /\ scan.sentOn < Len(scan.emitted)
    /\ scan' = [ReportOutput(scan, 1) EXCEPT !.sentOn = @ + 1]
    /\ UNCHANGED <<crawl, accepted, ddframe>>

\* ... m.ReportOutput(1), then case <-m.ctx.Done(): return
ForwardCtxDone ==
    /\ ~scan.fwdStopped /\ scan.sentOn < Len(scan.emitted)
    /\ scan.ctxDone
    /\ scan' = [ReportOutput(scan, 1) EXCEPT !.fwdStopped = TRUE]
    /\ UNCHANGED <<crawl, accepted, ddframe>>

\* The executor's result loop takes a SubdomainResult off the stream:
\* tracker.IncrementModuleOutput("SubdomainScan", 1).
ExecutorReceive ==
    /\ scan.counted < scan.sentOn
    /\ scan' = [ReportOutput(scan, 1) EXCEPT !.counted = @ + 1]
    /\ UNCHANGED <<crawl, accepted, ddframe>>

\* ActiveScanner.addResult(h) by source s: LoadOrStore, and only the first
\* store of a hostname goes on to the callback.
addResult(s, h) ==
    /\ scan.pc = "scan" /\ scan.src[s].pc = "run"
    /\ h \notin scan.src[s].delivered
    /\ scan' = [scan EXCEPT
                  !.results = @ \cup {h},
                  !.src[s].delivered = @ \cup {h},
                  !.src[s].cur = IF h \in scan.results THEN "" ELSE h,
                  !.src[s].pc = IF h \in scan.results THEN "run" ELSE "callback"]
    /\ UNCHANGED <<crawl, accepted, ddframe>>

\* The callback of scanSubdomains up to the duplicate check:
\* m.dupChecker.IsSubdomainDuplicate tests and sets under the checker's lock.
CallbackCheck(s) ==
    /\ scan.src[s].pc = "callback"
    /\ LET h == scan.src[s].cur IN
       IF IsSubdomainDuplicate(scan.subdomains, h)
       THEN /\ scan' = [scan EXCEPT !.src[s].pc = "run", !.src[s].cur = ""]
            /\ UNCHANGED accepted
       ELSE /\ scan' = [scan EXCEPT
                          !.subdomains = @ \cup {h},
                          !.src[s].pc = IF scan.enableHTTPProbe
                                        THEN "readSubdomains" ELSE "send"]
            /\ accepted' = Append(accepted, [kind |-> "subdomain", key |-> h])
    /\ UNCHANGED <<crawl, ddframe>>

\* HTTP probe off: case m.resultChan <- result
CallbackSend(s) ==
    /\ scan.src[s].pc = "send"
    /\ scan' = [scan EXCEPT !.emitted = Append(@, scan.src[s].cur),
                            !.src[s].pc = "run", !.src[s].cur = ""]
    /\ UNCHANGED <<crawl, accepted, ddframe>>

\* HTTP probe off: case <-m.ctx.Done(): return
CallbackCtxDone(s) ==
    /\ scan.src[s].pc = "send"
    /\ scan.ctxDone
    /\ scan' = [scan EXCEPT !.src[s].pc = "run", !.src[s].cur = ""]
    /\ UNCHANGED <<crawl, accepted, ddframe>>

\* HTTP probe on: collectedSubdomains = append(collectedSubdomains, h) and
\* collectedResults = append(collectedResults, result).  The callbacks of
\* the sources run concurrently and the slices are not locked: each append
\* is a read of the slice followed by a write of the longer one.
AppendSubdomainRead(s) ==
    /\ scan.src[s].pc = "readSubdomains"
    /\ scan' = [scan EXCEPT !.src[s].snap = scan.collectedSubdomains,
                            !.src[s].pc = "writeSubdomains"]
    /\ UNCHANGED <<crawl, accepted, ddframe>>

AppendSubdomainWrite(s) ==
    /\ scan.src[s].pc = "writeSubdomains"
    /\ scan' = [scan EXCEPT
                  !.collectedSubdomains = Append(scan.src[s].snap, scan.src[s].cur),
                  !.src[s].snap = <<>>,
                  !.src[s].pc = "readResults"]
    /\ UNCHANGED <<crawl, accepted, ddframe>>

AppendResultRead(s) ==
    /\ scan.src[s].pc = "readResults"
    /\ scan' = [scan EXCEPT !.src[s].snap = scan.collectedResults,
                            !.src[s].pc = "writeResults"]
    /\ UNCHANGED <<crawl, accepted, ddframe>>

AppendResultWrite(s) ==
    /\ scan.src[s].pc = "writeResults"
    /\ scan' = [scan EXCEPT
                  !.collectedResults = Append(scan.src[s].snap, scan.src[s].cur),
                  !.src[s].snap = <<>>, !.src[s].cur = "",
                  !.src[s].pc = "run"]
    /\ UNCHANGED <<crawl, accepted, ddframe>>

\* The source's goroutine ends (wg.Done in ActiveScanner.Run).
SourceDone(s) ==
    /\ scan.pc = "scan" /\ scan.src[s].pc = "run"
    /\ scan' = [scan EXCEPT !.src[s].pc = "done"]
    /\ UNCHANGED <<crawl, accepted, ddframe>>

\* ScanWithCallback returns (wg.Wait): with HTTP probe on and hosts
\* collected, the probe runs and the collected results are sent in order.
ScanReturn ==
    /\ scan.pc = "scan"
    /\ \A s \in Sources : scan.src[s].pc = "done"
    /\ scan' = [scan EXCEPT !.pc =
                  IF scan.enableHTTPProbe /\ Len(scan.collectedSubdomains) > 0
                  THEN "probe" ELSE "done"]
    /\ UNCHANGED <<crawl, accepted, ddframe>>

\* for _, result := range collectedResults: case m.resultChan <- result
ProbeSend ==
    /\ scan.pc = "probe"
    /\ scan.collectedResults # <<>>
    /\ scan' = [scan EXCEPT !.emitted = Append(@, Head(scan.collectedResults)),
                            !.collectedResults = Tail(@)]
    /\ UNCHANGED <<crawl, accepted, ddframe>>

\* ... case <-m.ctx.Done(): return
ProbeCtxDone ==
    /\ scan.pc = "probe"
    /\ scan.collectedResults # <<>>
    /\ scan.ctxDone
    /\ scan' = [scan EXCEPT !.pc = "done"]
    /\ UNCHANGED <<crawl, accepted, ddframe>>

ProbeDone ==
    /\ scan.pc = "probe"
    /\ scan.collectedResults = <<>>
    /\ scan' = [scan EXCEPT !.pc = "done"]
    /\ UNCHANGED <<crawl, accepted, ddframe>>

\* The context is cancelled while the scan runs.
ScanStop ==
    /\ scan.pc # "done" /\ ~scan.ctxDone
    /\ scan' = [scan EXCEPT !.ctxDone = TRUE]
    /\ UNCHANGED <<crawl, accepted, ddframe>>

\* A dedup key taken from the wrong field of the UrlResult.
BadCrawlerDedupKey(urlResult) == urlResult.input

\* m.dupChecker.IsURLDuplicate(urlResult.Output): the field that is checked.
CrawlerDedupKey(urlResult) == urlResult.output

\* katanaScanner.CrawlList returns result.URLs (the scan stage has ended:
\* the Crawler's input is closed).
KatanaReturn ==
    /\ scan.pc = "done" /\ crawl.pc = "idle"
    /\ \E urls \in SeqsUpTo(UrlResults, MaxBatch) :
          crawl' = [crawl EXCEPT !.pc = "katana", !.urls = urls]
    /\ UNCHANGED <<scan, accepted, ddframe>>

\* batchCrawlWithKatana, one result: a URL the duplicate checker has seen
\* is skipped, any other is recorded by the checker and sent on.
KatanaEmit ==
    /\ crawl.pc = "katana" /\ crawl.urls # <<>>
    /\ LET urlResult == Head(crawl.urls)
           key == CrawlerDedupKey(urlResult)
       IN
       IF IsURLDuplicate(crawl.seen, key)
       THEN /\ crawl' = [crawl EXCEPT !.urls = Tail(@), !.dropped = @ + 1]
            /\ UNCHANGED accepted
       ELSE /\ crawl' = [crawl EXCEPT
                           !.urls = Tail(@),
                           !.seen = @ \cup {normalizeServiceURL(key)},
                           !.sent = Append(@, urlResult.output)]
            /\ accepted' = Append(accepted, [kind |-> "url", key |-> urlResult.output])
    /\ UNCHANGED <<scan, ddframe>>

\* sprayScanner.ScanBatchWithWordlist returns result.Results.
SprayReturn ==
    /\ crawl.pc = "katana" /\ crawl.urls = <<>>
    /\ \E urls \in SeqsUpTo(SprayResults, MaxBatch) :
          crawl' = [crawl EXCEPT !.pc = "spray", !.urls = urls]
    /\ UNCHANGED <<scan, accepted, ddframe>>

\* DirScanModule.runBatchMode, one result: sent on; DirScan does not ask
\* its duplicate checker.
SprayEmit ==
    /\ crawl.pc = "spray" /\ crawl.urls # <<>>
    /\ crawl' = [crawl EXCEPT !.urls = Tail(@),
                              !.sent = Append(@, Head(crawl.urls).output)]
    /\ UNCHANGED <<scan, accepted, ddframe>>

SprayDone ==
    /\ crawl.pc = "spray" /\ crawl.urls = <<>>
    /\ crawl' = [crawl EXCEPT !.pc = "done"]
    /\ UNCHANGED <<scan, accepted, ddframe>>

DedupNext ==
    \/ ReceiveDomain
    \/ InputCtxDone
    \/ ForwardResult
    \/ ForwardCtxDone
    \/ ExecutorReceive
    \/ \E s \in Sources, h \in Hosts : addResult(s, h)
    \/ \E s \in Sources : CallbackCheck(s)
    \/ \E s \in Sources : CallbackSend(s)
    \/ \E s \in Sources : CallbackCtxDone(s)
    \/ \E s \in Sources : AppendSubdomainRead(s)
    \/ \E s \in Sources : AppendSubdomainWrite(s)
    \/ \E s \in Sources : AppendResultRead(s)
    \/ \E s \in Sources : AppendResultWrite(s)
    \/ \E s \in Sources : SourceDone(s)
    \/ ScanReturn
    \/ ProbeSend
    \/ ProbeCtxDone
    \/ ProbeDone
    \/ ScanStop
    \/ KatanaReturn
    \/ KatanaEmit
    \/ SprayReturn
    \/ SprayEmit
    \/ SprayDone

(***************************************************************************)
(* Result sink: the executor's save step and the scan-result collection    *)
(***************************************************************************)
\* Bound of the sink model.
MaxPayload == 2      \* versions of a record's contents (title, status, ...)

\* normalizeURL of the executor: the same steps as normalizeServiceURL.
normalizeURL(rawURL) == RemoveDefaultPorts(rawURL)

\* host[:strings.Index(host, "/")]: the pieces before the first path.
RECURSIVE UpToPath(_)
UpToPath(host) ==
    IF host = <<>> THEN host
    ELSE IF IsPath(host[1]) THEN <<>>
    ELSE <<host[1]>> \o UpToPath(Tail(host))

\* A host extraction that takes off scheme and path but leaves the port.
BadExtractHostFromURL(rawURL) ==
    IF rawURL = <<>> THEN rawURL
    ELSE UpToPath(IF rawURL[1] \in {"https://", "http://"}
                  THEN Tail(rawURL) ELSE rawURL)

extractHostFromURL(rawURL) ==
    IF rawURL = <<>> THEN rawURL
    ELSE LET noScheme == IF rawURL[1] \in {"https://", "http://"}
                         THEN Tail(rawURL) ELSE rawURL
             host == UpToPath(noScheme)
         IN IF host # <<>> /\ host[Len(host)] = ":443"
            THEN SubSeq(host, 1, Len(host) - 1)
            ELSE TrimPortSuffix(host, ":80")

SinkUrls == {UrlEmpty, UrlPlain, UrlDefaultPort, UrlHttp}

\* The ScanResult the executor's type switch builds for a record off the
\* result stream: the type, the data fields the dedup filter reads, and the
\* rest of the data as one payload.
SubdomainDoc(host, p) ==
    [type |-> "subdomain", url |-> <<>>, subdomain |-> host, payload |-> p]

ServiceDoc(url, p) ==
    [type |-> "service", url |-> url, subdomain |-> "", payload |-> p]

CrawlerDoc(output, p) ==
    [type |-> "crawler", url |-> normalizeURL(output), subdomain |-> "",
     payload |-> p]

\* The dedup key of a ScanResult: data.subdomain, or what
\* CreateResultWithDedup computes from data.url for the type.
KeyOf(doc) ==
    IF doc.type = "subdomain" THEN <<doc.subdomain>>
    ELSE IF doc.type = "service" THEN extractHostFromURL(doc.url)
    ELSE normalizeServiceURL(doc.url)

NoKey == <<"(no dedup field)">>

\* The data a write stores: the dedup field is put into data only when
\* data.url is not empty.
RowOf(doc) ==
    [type |-> doc.type,
     key |-> IF doc.type = "subdomain" \/ doc.url # <<>>
             THEN KeyOf(doc) ELSE NoKey,
     payload |-> doc.payload]

\* The filter of CreateResultWithDedup against a stored row: task_id and
\* type always, the dedup field only when data.url is not empty.
FilterMatches(doc, row) ==
    /\ row.type = doc.type
    /\ doc.url # <<>> => row.key = KeyOf(doc)

\* ResultService.CreateResult: InsertOne.
CreateResult(coll, doc) == Append(coll, RowOf(doc))

\* ResultService.CreateResultWithDedup: UpdateOne with upsert; $set puts the
\* data of the first row the filter matches, and without a match the
\* document is inserted.
CreateResultWithDedup(coll, doc) ==
    LET hits == {k \in 1..Len(coll) : FilterMatches(doc, coll[k])} IN
    IF hits = {} THEN Append(coll, RowOf(doc))
    ELSE LET k == CHOOSE x \in hits : \A y \in hits : x <= y
         IN [coll EXCEPT ![k] = RowOf(doc)]

\* No save has been made.
NoWrite == [attempts |-> 0, saved |-> FALSE]

SinkIdle ==
    /\ rows = <<>>
    /\ lastAccepted = {}
    /\ lastWrite = NoWrite

SinkInit == SinkIdle

\* The save at the end of one pass of the executor's result loop: by type,
\* with or without dedup, called once; an error of the write (ok = FALSE) is
\* logged and the loop goes on to the next result.
SaveResult(doc, ok) ==
    /\ lastWrite' = [attempts |-> 1, saved |-> ok]
    /\ IF ok
       THEN /\ rows' = IF doc.type \in {"service", "url", "crawler", "dirscan"}
                       THEN CreateResultWithDedup(rows, doc)
                       ELSE CreateResult(rows, doc)
            /\ lastAccepted' =
                  {a \in lastAccepted :
                      ~(a.type = doc.type /\ a.key = KeyOf(doc))}
                  \cup {[type |-> doc.type, key |-> KeyOf(doc),
                         payload |-> doc.payload]}
       ELSE UNCHANGED <<rows, lastAccepted>>

\* A SubdomainResult comes off the stream; the chain lets a hostname through
\* once.
SaveSubdomain ==
    \E host \in Hosts, p \in 1..MaxPayload, ok \in BOOLEAN :
        /\ \A a \in lastAccepted :
              ~(a.type = "subdomain" /\ a.key = <<host>>)
        /\ SaveResult(SubdomainDoc(host, p), ok)
        /\ UNCHANGED skframe

\* An AssetHttp comes off the stream.
SaveService ==
    \E url \in SinkUrls, p \in 1..MaxPayload, ok \in BOOLEAN :
        /\ SaveResult(ServiceDoc(url, p), ok)
        /\ UNCHANGED skframe

\* A UrlResult of the crawler comes off the stream.
SaveCrawler ==
    \E output \in SinkUrls \ {UrlEmpty}, p \in 1..MaxPayload, ok \in BOOLEAN :
        /\ SaveResult(CrawlerDoc(output, p), ok)
        /\ UNCHANGED skframe

SinkNext == SaveSubdomain \/ SaveService \/ SaveCrawler

(***************************************************************************)
(* Task-status monitor of the executor                                     *)
(***************************************************************************)
Tasks == {"t1", "t2"}

\* The snapshot of the registered ids, in the order the map is ranged over.
RECURSIVE Orders(_)
Orders(S) ==
    IF S = {} THEN {<<>>}
    ELSE UNION {{<<x>> \o q : q \in Orders(S \ {x})} : x \in S}

MonitorInit ==
    /\ taskStatus = [t \in Tasks |-> "running"]
    /\ runningTasks = {}
    /\ ctxDone = [t \in Tasks |-> FALSE]
    /\ phase = [t \in Tasks |-> "dequeued"]
    /\ monitor = [pc |-> "ticker", taskIDs |-> <<>>]
    /\ endStatus = [t \in Tasks |-> "none"]

\* executeStreamingPipeline up to scanPipe.Start: the task is registered
\* with its cancel function and pipeline.
registerRunningTask(t) ==
    /\ phase[t] = "dequeued"
    /\ phase' = [phase EXCEPT ![t] = "collecting"]
    /\ runningTasks' = runningTasks \cup {t}
    /\ UNCHANGED <<taskStatus, ctxDone, monitor, endStatus, mframe>>

\* executeStreamingPipeline returns: the deferred unregisterRunningTask
\* and cancel() run.
unregisterRunningTask(t) ==
    /\ phase' = [phase EXCEPT ![t] = "returned"]
    /\ runningTasks' = runningTasks \ {t}
    /\ ctxDone' = [ctxDone EXCEPT ![t] = TRUE]

\* ctx, cancel := context.WithTimeout(context.Background(), 24*time.Hour):
\* the 24 hours are over while the call is still running.
Deadline(t) ==
    /\ phase[t] \in {"collecting", "ended", "completing"} /\ ~ctxDone[t]
    /\ ctxDone' = [ctxDone EXCEPT ![t] = TRUE]
    /\ UNCHANGED <<taskStatus, runningTasks, phase, monitor, endStatus, mframe>>

\* The result loop takes a result and finds ctx.Done: return.
ResultCtxDone(t) ==
    /\ phase[t] = "collecting" /\ ctxDone[t]
    /\ unregisterRunningTask(t)
    /\ UNCHANGED <<taskStatus, monitor, endStatus, mframe>>

\* scanPipe.Results() is closed: the result loop is over.
StreamEnds(t) ==
    /\ phase[t] = "collecting"
    /\ phase' = [phase EXCEPT ![t] = "ended"]
    /\ endStatus' = [endStatus EXCEPT ![t] = taskStatus[t]]
    /\ UNCHANGED <<taskStatus, runningTasks, ctxDone, monitor, mframe>>

\* The test after the result loop on what GetTaskByID returned: the
\* function returns for an error, no task, or a cancelled task.
LeavesUncompleted(status, err) ==
    err \/ status = "deleted" \/ status = "cancelled"

\* After the result loop: currentTask, err := GetTaskByID(taskID), and
\* either the return or the way on to completeTask.
FinalCheck(t) ==
    /\ phase[t] = "ended"
    /\ \E err \in BOOLEAN :
          IF LeavesUncompleted(taskStatus[t], err)
          THEN unregisterRunningTask(t)
          ELSE /\ phase' = [phase EXCEPT ![t] = "completing"]
               /\ UNCHANGED <<runningTasks, ctxDone>>
    /\ UNCHANGED <<taskStatus, monitor, endStatus, mframe>>

\* completeTask: UpdateTask sets the status to completed (of a task that is
\* still in the store); the function returns.
completeTask(t) ==
    /\ phase[t] = "completing"
    /\ taskStatus' = [taskStatus EXCEPT
                        ![t] = IF @ = "deleted" THEN @ ELSE "completed"]
    /\ unregisterRunningTask(t)
    /\ UNCHANGED <<monitor, endStatus, mframe>>

\* The task store changes under the executor: the task is paused, cancelled
\* or deleted through the API.
StoreChange(t, status) ==
    /\ taskStatus[t] = "running"
    /\ taskStatus' = [taskStatus EXCEPT ![t] = status]
    /\ UNCHANGED <<runningTasks, ctxDone, phase, monitor, endStatus, mframe>>

\* case <-ticker.C: checkRunningTasks copies the registered ids.
Tick ==
    /\ monitor.pc = "ticker"
    /\ \E ids \in Orders(runningTasks) :
          monitor' = [pc |-> IF ids = <<>> THEN "ticker" ELSE "check",
                      taskIDs |-> ids]
    /\ UNCHANGED <<taskStatus, runningTasks, ctxDone, phase, endStatus, mframe>>

\* A status mistaken for the only one that cancels.
BadShouldCancel(status, err) == status = "cancelled"

\* checkRunningTasks, the test on what GetTaskByID returned: an error or no
\* task counts as deleted; a cancelled or paused task is cancelled.
ShouldCancel(status, err) ==
    err \/ status = "deleted" \/ status \in {"cancelled", "paused"}

\* cancelRunningTask: pipeline.Stop() and cancelFunc() of a task that is
\* still registered.
cancelRunningTask(t) ==
    IF t \in runningTasks THEN [ctxDone EXCEPT ![t] = TRUE] ELSE ctxDone

\* checkRunningTasks, one id of the copied list.
CheckTask ==
    /\ monitor.pc = "check"
    /\ LET t == Head(monitor.taskIDs)
           rest == Tail(monitor.taskIDs)
       IN
       /\ \E err \in BOOLEAN :
             ctxDone' = IF ShouldCancel(taskStatus[t], err)
                        THEN cancelRunningTask(t) ELSE ctxDone
       /\ monitor' = [pc |-> IF rest = <<>> THEN "ticker" ELSE "check",
                      taskIDs |-> rest]
    /\ UNCHANGED <<taskStatus, runningTasks, phase, endStatus, mframe>>

MonitorStep == Tick \/ CheckTask

MonitorNext ==
    \/ \E t \in Tasks : registerRunningTask(t)
    \/ \E t \in Tasks : Deadline(t)
    \/ \E t \in Tasks : ResultCtxDone(t)
    \/ \E t \in Tasks : StreamEnds(t)
    \/ \E t \in Tasks : FinalCheck(t)
    \/ \E t \in Tasks : completeTask(t)
    \/ \E t \in Tasks, status \in {"paused", "cancelled", "deleted"} :
          StoreChange(t, status)
    \/ Tick
    \/ CheckTask

(***************************************************************************)
(* The executor's workers: dequeue, register, execute, unregister          *)
(***************************************************************************)
\* Bound: the ids on the queue task:queue:<type> when the workers start.
MaxQueued == 3

Workers == {"w1", "w2"}

QueuedIds == UNION {[1..n -> Tasks] : n \in 0..MaxQueued}

IdleWorker == [pc |-> "idle", task |-> "none"]

\* The workers are at the top of their loops, the tasks on the queue are
\* pending, nothing is registered.
ExecStart(ids) ==
    [queue |-> ids,
     status |-> [t \in Tasks |-> "pending"],
     w |-> [k \in Workers |-> IdleWorker],
     runningTasks |-> [t \in Tasks |-> "none"]]   \* the worker whose entry it is

ExecIdle == exec = ExecStart(<<>>)

ExecInit == \E ids \in QueuedIds : exec = ExecStart(ids)

\* dequeueRunningTask: LPop, GetTaskByID; a task that is neither running
\* nor pending is skipped, a pending one is set to running; then
\* processTask.
WorkerDequeue(k) ==
    /\ exec.w[k].pc = "idle" /\ exec.queue # <<>>
    /\ LET id == Head(exec.queue)
       IN  exec' = IF exec.status[id] \notin {"running", "pending"}
                   THEN [exec EXCEPT !.queue = Tail(@)]
                   ELSE [exec EXCEPT !.queue = Tail(@),
                                     !.status[id] = "running",
                                     !.w[k] = [pc |-> "processing", task |-> id]]
    /\ UNCHANGED eframe

\* executeStreamingPipeline up to scanPipe.Start: registerRunningTask does
\* e.runningTasks[taskID] = &runningTask{...}.
WorkerRegister(k) ==
    /\ exec.w[k].pc = "processing"
    /\ exec' = [exec EXCEPT !.w[k].pc = "collecting",
                            !.runningTasks[exec.w[k].task] = k]
    /\ UNCHANGED eframe

\* The result stream ends, completeTask, and the deferred
\* unregisterRunningTask: delete(e.runningTasks, taskID).
WorkerReturn(k) ==
    /\ exec.w[k].pc = "collecting"
    /\ exec' = [exec EXCEPT !.w[k] = IdleWorker,
                            !.status[exec.w[k].task] = "completed",
                            !.runningTasks[exec.w[k].task] = "none"]
    /\ UNCHANGED eframe

ExecNext ==
    \/ \E k \in Workers : WorkerDequeue(k)
    \/ \E k \in Workers : WorkerRegister(k)
    \/ \E k \in Workers : WorkerReturn(k)

(***************************************************************************)
(* Progress callbacks of a task and the progress stored with it            *)
(***************************************************************************)
\* The values report.OverallProgress takes in this model.
OverallValues == {0, 20, 40, 60, 80, 100}

\* The task is running, nothing has been reported.
NotifyStart ==
    [status |-> "running", progress |-> 0,
     inflight |-> {},          \* reports of callbacks started and not yet run
     streamEnded |-> FALSE]

NotifyIdle == notify = NotifyStart

NotifyInit == notify = NotifyStart

\* notifyProgress at the end of a tracker event:
\* report := pt.getReportUnsafe(); go pt.callback(report)
NotifyProgress(overall) ==
    /\ ~notify.streamEnded
    /\ notify' = [notify EXCEPT !.inflight = @ \cup {overall}]
    /\ UNCHANGED nframe

\* The callback goroutine runs: updateProgressWithDetails writes
\* "progress": report.OverallProgress.
UpdateProgressWithDetails(overall) ==
    /\ overall \in notify.inflight
    /\ notify' = [notify EXCEPT !.inflight = @ \ {overall},
                                !.progress = overall]
    /\ UNCHANGED nframe

\* The pipeline has closed its result stream: no tracker event follows.
ResultsClosed ==
    /\ ~notify.streamEnded
    /\ notify' = [notify EXCEPT !.streamEnded = TRUE]
    /\ UNCHANGED nframe

\* completeTask after the result loop: status completed, progress 100.
CompleteWithProgress ==
    /\ notify.streamEnded /\ notify.status = "running"
    /\ notify' = [notify EXCEPT !.status = "completed", !.progress = 100]
    /\ UNCHANGED nframe

NotifyNext ==
    \/ \E overall \in OverallValues : NotifyProgress(overall)
    \/ \E overall \in OverallValues : UpdateProgressWithDetails(overall)
    \/ ResultsClosed
    \/ CompleteWithProgress

(***************************************************************************)
(* SubdomainScan: several targets scanned at once on one ActiveScanner     *)
(***************************************************************************)
Targets == {"a.com", "b.com"}

\* What a scan of a target can find: hostnames under that target.
Labels == {"www", "api"}
HostsUnder(d) == {<<l, d>> : l \in Labels}

\* The module's one ActiveScanner has no callback, no scan runs.
MultiStart ==
    [callback |-> "none",       \* s.callback: the target its closure holds
     pc |-> [d \in Targets |-> "input"],
     found |-> {},              \* hostnames reported to addResult
     emitted |-> {}]            \* SubdomainResults sent to resultChan

MultiIdle == multi = MultiStart

MultiInit == multi = MultiStart

\* ModuleRun: go func(d) { m.scanSubdomains(d) }(domain), and
\* ScanWithCallback: s.callback = callback, then Run.
ScanWithCallback(d) ==
    /\ multi.pc[d] = "input"
    /\ multi' = [multi EXCEPT !.pc[d] = "run", !.callback = d]
    /\ UNCHANGED xframe

\* A source of the scan of d reports host: addResult calls s.callback, and
\* the closure stored there makes the SubdomainResult with its own domain.
FoundHost(d, host) ==
    /\ multi.pc[d] = "run"
    /\ host \in HostsUnder(d) \ multi.found
    /\ multi' = [multi EXCEPT
                   !.found = @ \cup {host},
                   !.emitted = @ \cup {[Host |-> host,
                                        RootDomain |-> multi.callback]}]
    /\ UNCHANGED xframe

\* Run returns: the sources of the scan of d are done.
ScanEnds(d) ==
    /\ multi.pc[d] = "run"
    /\ multi' = [multi EXCEPT !.pc[d] = "done"]
    /\ UNCHANGED xframe

MultiNext ==
    \/ \E d \in Targets : ScanWithCallback(d)
    \/ \E d \in Targets, l \in Labels : FoundHost(d, <<l, d>>)
    \/ \E d \in Targets : ScanEnds(d)

(***************************************************************************)
(* One DSLEngine shared by the goroutines of BatchScanFingerprint          *)
(***************************************************************************)
Goroutines == {"g1", "g2"}

\* Patterns of regex(...) expressions in the rules: two that compile and
\* one that regexp.Compile rejects.
RegexPatterns == {"a+", "b+", "("}
Compiles(pattern) == pattern # "("

\* NewDSLEngine: no rule, an empty cache, e.mu free.
EngineStart ==
    [rulesLoaded |-> FALSE,
     readers |-> {},            \* goroutines holding e.mu.RLock
     writer |-> "none",         \* the goroutine holding e.mu.Lock
     compiled |-> {},           \* the keys of e.compiled
     pc |-> [g \in Goroutines |-> "idle"],
     pattern |-> [g \in Goroutines |-> "none"],
     fatal |-> FALSE]           \* the runtime has stopped the process

EngineIdle == engine = EngineStart

EngineInit == engine = EngineStart

\* LoadRulesFromFile: e.mu.Lock(), the rules are stored.
LoadRulesFromFile(g) ==
    /\ ~engine.fatal /\ engine.pc[g] = "idle" /\ ~engine.rulesLoaded
    /\ engine.writer = "none" /\ engine.readers = {}
    /\ engine' = [engine EXCEPT !.writer = g, !.pc[g] = "loading"]
    /\ UNCHANGED gframe

\* LoadRulesFromFile returns: defer e.mu.Unlock().
LoadRulesReturn(g) ==
    /\ ~engine.fatal /\ engine.pc[g] = "loading"
    /\ engine' = [engine EXCEPT !.writer = "none", !.pc[g] = "idle",
                                !.rulesLoaded = TRUE]
    /\ UNCHANGED gframe

\* AnalyzeResponse: e.mu.RLock(), then the loop over e.Rules.
AnalyzeResponse(g) ==
    /\ ~engine.fatal /\ engine.pc[g] = "idle" /\ engine.rulesLoaded
    /\ engine.writer = "none"
    /\ engine' = [engine EXCEPT !.readers = @ \cup {g}, !.pc[g] = "rules"]
    /\ UNCHANGED gframe

\* evalRegex: re, ok := e.compiled[pattern]; on a miss regexp.Compile,
\* which fails (return false) or leaves the goroutine about to store.
evalRegex(g, pattern) ==
    /\ ~engine.fatal /\ engine.pc[g] = "rules"
    /\ engine.pattern[g] # pattern
    /\ engine' = [engine EXCEPT
                    !.pattern[g] = pattern,
                    !.pc[g] = IF pattern \notin engine.compiled /\ Compiles(pattern)
                              THEN "store" ELSE "rules"]
    /\ UNCHANGED gframe

\* e.compiled[pattern] = re.  Two goroutines writing the map at once is a
\* data race: the write goes through or the runtime stops the process
\* (fatal error: concurrent map writes).
StoreCompiled(g) ==
    /\ ~engine.fatal /\ engine.pc[g] = "store"
    /\ \/ engine' = [engine EXCEPT !.compiled = @ \cup {engine.pattern[g]},
                                   !.pc[g] = "rules"]
       \/ /\ \E h \in Goroutines \ {g} : engine.pc[h] = "store"
          /\ engine' = [engine EXCEPT !.fatal = TRUE]
    /\ UNCHANGED gframe

\* AnalyzeResponse returns: defer e.mu.RUnlock().
AnalyzeReturn(g) ==
    /\ ~engine.fatal /\ engine.pc[g] = "rules"
    /\ engine' = [engine EXCEPT !.readers = @ \ {g}, !.pc[g] = "idle",
                                !.pattern[g] = "none"]
    /\ UNCHANGED gframe

EngineNext ==
    \/ \E g \in Goroutines : LoadRulesFromFile(g)
    \/ \E g \in Goroutines : LoadRulesReturn(g)
    \/ \E g \in Goroutines : AnalyzeResponse(g)
    \/ \E g \in Goroutines, pattern \in RegexPatterns : evalRegex(g, pattern)
    \/ \E g \in Goroutines : StoreCompiled(g)
    \/ \E g \in Goroutines : AnalyzeReturn(g)

(***************************************************************************)
(* One external tool run: the scanner wrapper and the module around it     *)
(***************************************************************************)
\* Bound of the tool model.
MaxLines == 2        \* entries the tool writes to its output file

\* The scanner calls behind the modules: katana -list under
\* batchCrawlWithKatana, spray under scanWithSpray, spray -l under
\* DirScanModule.runBatchMode.
ToolKinds == {"CrawlList", "ScanWithWordlist", "ScanBatchWithWordlist"}

ToolStart(kind) ==
    [kind |-> kind,
     pc |-> "running",        \* running, exited, returned, emitting, done
     cause |-> "none",        \* how the process ended
     cancelled |-> FALSE,     \* m.ctx is done
     file |-> <<>>,           \* the entries in the output file
     result |-> <<>>, err |-> FALSE,
     todo |-> <<>>, emitted |-> <<>>]

ToolIdle == tool = ToolStart("CrawlList")

ToolInit == tool \in {ToolStart(kind) : kind \in ToolKinds}

\* The tool finds something and writes it to the output file.
ToolWrite ==
    /\ tool.pc = "running"
    /\ Len(tool.file) < MaxLines
    /\ tool' = [tool EXCEPT !.file = Append(@, Len(@) + 1)]
    /\ UNCHANGED tframe

\* cmd.Run / cmd.CombinedOutput returns: the tool exited by itself ("exit"),
\* failed ("failure"), or was killed with its context at the deadline
\* ("deadline") or at the cancellation of m.ctx ("cancel").
ToolEnds(cause) ==
    /\ tool.pc = "running"
    /\ tool' = [tool EXCEPT !.pc = "exited", !.cause = cause,
                            !.cancelled = (cause = "cancel")]
    /\ UNCHANGED tframe

\* After the command returned, does the wrapper go on to parse the output
\* file?  CrawlList returns early when ctx.Err() != nil; ScanWithWordlist
\* returns early on its deadline and on ctx.Err() != nil;
\* ScanBatchWithWordlist returns early only when the error is not the
\* deadline and ctx.Err() != nil.
ParsesOutput(kind, cause) ==
    IF cause \in {"exit", "failure"} THEN TRUE
    ELSE IF cause = "deadline" THEN kind = "ScanBatchWithWordlist"
    ELSE FALSE

\* The wrapper returns (result, err).
ScannerReturn ==
    /\ tool.pc = "exited"
    /\ tool' = [tool EXCEPT
                  !.pc = "returned",
                  !.result = IF ParsesOutput(tool.kind, tool.cause)
                             THEN tool.file ELSE <<>>,
                  !.err = ~ParsesOutput(tool.kind, tool.cause)]
    /\ UNCHANGED tframe

\* The module looks at (result, err): batchCrawlWithKatana and
\* scanWithSpray return on an error, runBatchMode of DirScan logs it and
\* goes through the result.
ModuleHandle ==
    /\ tool.pc = "returned"
    /\ tool' = IF tool.err /\ tool.kind # "ScanBatchWithWordlist"
               THEN [tool EXCEPT !.pc = "done"]
               ELSE [tool EXCEPT !.pc = "emitting", !.todo = tool.result]
    /\ UNCHANGED tframe

\* select: case m.nextModule.GetInput() <- urlResult (or m.resultChan)
EmitSend ==
    /\ tool.pc = "emitting" /\ tool.todo # <<>>
    /\ tool' = [tool EXCEPT !.emitted = Append(@, Head(tool.todo)),
                            !.todo = Tail(@)]
    /\ UNCHANGED tframe

\* select: case <-m.ctx.Done(): return / goto cleanup
EmitCtxDone ==
    /\ tool.pc = "emitting" /\ tool.todo # <<>>
    /\ tool.cancelled
    /\ tool' = [tool EXCEPT !.pc = "done", !.todo = <<>>]
    /\ UNCHANGED tframe

EmitDone ==
    /\ tool.pc = "emitting" /\ tool.todo = <<>>
    /\ tool' = [tool EXCEPT !.pc = "done"]
    /\ UNCHANGED tframe

\* m.ctx is cancelled after the tool has ended.
ToolLateCancel ==
    /\ tool.pc \in {"exited", "returned", "emitting"} /\ ~tool.cancelled
    /\ tool' = [tool EXCEPT !.cancelled = TRUE]
    /\ UNCHANGED tframe

ToolNext ==
    \/ ToolWrite
    \/ \E cause \in {"exit", "failure", "deadline", "cancel"} : ToolEnds(cause)
    \/ ScannerReturn
    \/ ModuleHandle
    \/ EmitSend
    \/ EmitCtxDone
    \/ EmitDone
    \/ ToolLateCancel

(***************************************************************************)
(* Calls of the configuration and URL functions                            *)
(***************************************************************************)
\* A call that has not been made / one with its argument / its result.
NoCall == [fn |-> "none", arg |-> <<>>, done |-> FALSE, out |-> <<>>]

CallOf(fn, arg) ==
    [fn |-> fn, arg |-> arg, done |-> FALSE, out |-> <<>>, panic |-> FALSE]

CallIdle == call = NoCall

\* The scan types a custom task can select (task.Config.ScanTypes).
ScanTypeNames ==
    {"subdomain", "takeover", "port_scan", "fingerprint", "service_detect",
     "crawler", "dir_scan", "vuln_scan", "sensitive"}

\* &pipeline.PipelineConfig{SkipCDN: true, PortScanMode: "top1000"}
BaseConfig ==
    [SubdomainScan |-> FALSE, SubdomainCheckTakeover |-> FALSE,
     PortScan |-> FALSE, PortScanMode |-> "top1000", Fingerprint |-> FALSE,
     WebCrawler |-> FALSE, DirScan |-> FALSE, VulnScan |-> FALSE,
     SensitiveScan |-> FALSE]

\* The block shared by crawler, dir_scan and vuln_scan: the port scan is
\* switched on in quick mode if it is off, and the fingerprint stage on.
NeedHTTPService(config) ==
    [config EXCEPT
        !.PortScan = TRUE,
        !.PortScanMode = IF config.PortScan THEN @ ELSE "quick",
        !.Fingerprint = TRUE]

\* TaskExecutor.buildCustomConfig: the ifs in their order.
buildCustomConfig(scanTypes) ==
    LET c1 == IF "subdomain" \in scanTypes
              THEN [BaseConfig EXCEPT !.SubdomainScan = TRUE] ELSE BaseConfig
        c2 == IF "takeover" \in scanTypes
              THEN [c1 EXCEPT !.SubdomainScan = TRUE,
                              !.SubdomainCheckTakeover = TRUE] ELSE c1
        c3 == IF "port_scan" \in scanTypes
              THEN [c2 EXCEPT !.PortScan = TRUE] ELSE c2
        c4 == IF "fingerprint" \in scanTypes \/ "service_detect" \in scanTypes
              THEN [c3 EXCEPT !.PortScan = TRUE, !.Fingerprint = TRUE] ELSE c3
        c5 == IF "crawler" \in scanTypes
              THEN NeedHTTPService([c4 EXCEPT !.WebCrawler = TRUE]) ELSE c4
        c6 == IF "dir_scan" \in scanTypes
              THEN NeedHTTPService([c5 EXCEPT !.DirScan = TRUE]) ELSE c5
        c7 == IF "vuln_scan" \in scanTypes
              THEN NeedHTTPService([c6 EXCEPT !.VulnScan = TRUE]) ELSE c6
    IN IF "sensitive" \in scanTypes
       THEN [c7 EXCEPT !.SensitiveScan = TRUE] ELSE c7

\* Target strings: the empty string, a host name as one piece, an IPv4
\* address as its four octets, and the CIDR text "a.b.c.d/n" as
\* <<<<a, b, c, d>>, "/", n>>.
TargetEmpty == <<>>

TargetHost == <<"example.com">>

CidrSmall == <<<<10, 0, 0, 5>>, "/", 31>>

CidrLarge == <<<<10, 0, 0, 0>>, "/", 8>>

CidrInvalid == <<<<10, 0, 0, 0>>, "/", 33>>

TargetStrings == {TargetEmpty, TargetHost, CidrSmall, CidrLarge, CidrInvalid}

\* Task.Targets: lists of at most MaxTargets target strings.
MaxTargets == 2

TargetLists ==
    UNION {[1..n -> TargetStrings] : n \in 0..MaxTargets}

\* 2001:db8::fffe as its sixteen octets, and the prefix lengths an IPv6
\* text is given: host parts of 0, 1, 8, 17, 30, 63, 64 and 80 bits, and
\* one prefix length over 128.
IPv6Address == <<32, 1, 13, 184, 0, 0, 0, 0, 0, 0, 0, 0, 0, 0, 255, 254>>

IPv6Prefixes == {128, 127, 120, 111, 98, 65, 64, 48, 129}

\* The CIDR texts expandCIDR is called with: networks of 1 to 2^24
\* addresses around the cap, one of them ending at an octet boundary.
CidrTexts ==
    {<<ip, "/", ones>> :
        ip \in {<<10, 0, 0, 5>>, <<10, 0, 255, 254>>},
        ones \in {8, 15, 16, 22, 30, 31, 32, 33}}
    \cup {<<ip, "/", ones>> : ip \in {IPv6Address}, ones \in IPv6Prefixes}

Pow2(n) ==
    LET P[k \in 0..n] == IF k = 0 THEN 1 ELSE 2 * P[k - 1]
    IN P[n]

\* strings.Contains(target, "/"): only the CIDR texts hold a slash, as
\* their second piece.
ContainsSlash(target) == Len(target) = 3 /\ target[2] = "/"

\* An address as a 32-bit number and back.
IPToInt(ip) == ((ip[1] * 256 + ip[2]) * 256 + ip[3]) * 256 + ip[4]

IntToIP(v) ==
    <<v \div 16777216, (v \div 65536) % 256, (v \div 256) % 256, v % 256>>

\* ip.Mask(mask): the octets of ip with the bits after the first ones
\* bits cleared.
MaskIP(ip, ones) ==
    [j \in 1..Len(ip) |->
        LET keep == ones - 8 * (j - 1)
        IN IF keep >= 8 THEN ip[j]
           ELSE IF keep <= 0 THEN 0
           ELSE ip[j] - (ip[j] % Pow2(8 - keep))]

\* net.ParseCIDR: an error for a prefix length over the address length
\* (32 bits for an IPv4 text, 128 for an IPv6 text), otherwise the network
\* address (the host bits masked off) and the mask, whose Size() is
\* (ones, bits).
ParseCIDR(cidr) ==
    LET bits == 8 * Len(cidr[1]) IN
    IF cidr[3] > bits
    THEN [err |-> TRUE, ip |-> <<0, 0, 0, 0>>, ones |-> 0, bits |-> bits]
    ELSE [err |-> FALSE,
          ip |-> IF bits = 32
                 THEN LET v == IPToInt(cidr[1])
                      IN IntToIP(v - (v % Pow2(32 - cidr[3])))
                 ELSE MaskIP(cidr[1], cidr[3]),
          ones |-> cidr[3], bits |-> bits]

\* 1 << k on an int of 64 bits: 0 once every bit is shifted out, and the
\* most negative int, -2^63, for k = 63 (only its sign is used below; it
\* is written as -1).  The shift counts in between that occur are at
\* most 30.
ShiftLeftOne(k) ==
    IF k >= 64 THEN 0
    ELSE IF k = 63 THEN -1
    ELSE Pow2(k)

\* const maxCIDRExpand = 65536
maxCIDRExpand == 65536

\* An increment that touches the last octet only.
BadIncrementIP(ip) == [ip EXCEPT ![4] = (@ + 1) % 256]

\* for j := len(ip) - 1; j >= 0; j-- { ip[j]++; if ip[j] > 0 { break } }:
\* the octets are bytes, an octet that wraps to 0 carries into the one
\* before it.
RECURSIVE IncrementFrom(_, _)
IncrementFrom(ip, j) ==
    IF j = 0 THEN ip
    ELSE LET b == (ip[j] + 1) % 256
         IN IF b > 0 THEN [ip EXCEPT ![j] = b]
            ELSE IncrementFrom([ip EXCEPT ![j] = 0], j - 1)

incrementIP(ip) == IncrementFrom(ip, Len(ip))

\* The loop of expandCIDR: n addresses from ip on, each the increment of
\* the one before it (built by halves).
RECURSIVE AddressesFrom(_, _)
AddressesFrom(ip, n) ==
    IF n = 1 THEN <<ip>>
    ELSE LET h == n \div 2
             left == AddressesFrom(ip, h)
         IN left \o AddressesFrom(incrementIP(left[h]), n - h)

\* numIPs := 1 << (bits - ones) of expandCIDR.
NumIPs(net) == ShiftLeftOne(net.bits - net.ones)

\* make([]string, 0, numIPs) panics for a negative capacity
\* (makeslice: cap out of range).
expandCIDRPanics(cidr) ==
    LET net == ParseCIDR(cidr)
    IN ~net.err /\ NumIPs(net) < 0

\* expandCIDR where it returns: the text itself when it does not parse or
\* the network is too large, otherwise numIPs addresses from the network
\* address on (none for numIPs = 0).
expandCIDR(cidr) ==
    LET net == ParseCIDR(cidr)
        numIPs == NumIPs(net)
    IN IF net.err THEN <<cidr>>
       ELSE IF numIPs > maxCIDRExpand THEN <<cidr>>
       ELSE IF numIPs <= 0 THEN <<>>
       ELSE AddressesFrom(net.ip, numIPs)

\* ScanPipeline.parseTargets: empty targets are skipped, a target with a
\* slash is expanded, any other is kept.
parseTargets(targets) ==
    LET F[i \in 0..Len(targets)] ==
            IF i = 0 THEN <<>>
            ELSE IF targets[i] = TargetEmpty THEN F[i - 1]
            ELSE IF ContainsSlash(targets[i])
                 THEN F[i - 1] \o expandCIDR(targets[i])
                 ELSE Append(F[i - 1], targets[i])
    IN F[Len(targets)]

\* Config.PortScanMode values: the four the switch names, the empty string
\* and one it does not name.
KnownModes == {"quick", "full", "top1000", "custom"}

PortScanModes == KnownModes \cup {"", "fast"}

\* TaskExecutor.runPortScanMode (and the switch of ScanPipeline.runPortScan):
\* the GoGo scanner method the mode selects.
runPortScanMode(mode) ==
    LET m == IF mode = "" THEN "quick" ELSE mode
    IN CASE m = "full" -> "FullScan"
         [] m = "top1000" -> "Top1000Scan"
         [] m = "custom" -> "ScanPorts"
         [] OTHER -> "QuickScan"

ScannerMethods == {"FullScan", "Top1000Scan", "ScanPorts", "QuickScan"}

\* The pieces URL strings are made of here, and the URL strings of at most
\* MaxUrlLen pieces.
UrlTokens == {"https://", "http://", "x", ":443", ":80", ":8080", "/p"}

MaxUrlLen == 4

UrlStrings == UNION {[1..n -> UrlTokens] : n \in 0..MaxUrlLen}

Normalizers == {"normalizeURL", "normalizeServiceURL"}

\* URLs of web services: the root of host x under either scheme, without a
\* port or with one, and the empty URL.
ServiceUrls ==
    {UrlEmpty}
    \cup {<<scheme, "x", "/">> : scheme \in {"https://", "http://"}}
    \cup {<<scheme, "x", port, "/">> :
             scheme \in {"https://", "http://"},
             port \in {":443", ":80", ":8080"}}

\* Two AssetHttp records of one task, in the order they come off the stream.
ServicePairs ==
    {<<ServiceDoc(u1, p1), ServiceDoc(u2, p2)>> :
        u1 \in ServiceUrls, u2 \in ServiceUrls,
        p1 \in 1..MaxPayload, p2 \in 1..MaxPayload}

\* The save step for the records one after the other, into the task's empty
\* collection, every write succeeding.
SaveAll(docs) ==
    LET F[i \in 0..Len(docs)] ==
            IF i = 0 THEN <<>>
            ELSE CreateResultWithDedup(F[i - 1], docs[i])
    IN F[Len(docs)]

\* The URLs of the AssetHttp records a batch-mode module receives before its
\* input is closed: at most MaxAssets of them, "" for an asset without URL.
AssetUrls == {"", "http://a", "http://b"}

MaxAssets == 3

AssetRuns == UNION {[1..n -> AssetUrls] : n \in 0..MaxAssets}

\* The collection loop: if asset.URL != "" && !urlSet[asset.URL], the URL is
\* appended to urlsToScan (and the asset to pendingAssets).
urlsToScanOf(assets) ==
    LET F[i \in 0..Len(assets)] ==
            IF i = 0 THEN <<>>
            ELSE IF assets[i] # "" /\ \A k \in 1..Len(F[i - 1]) :
                                         F[i - 1][k] # assets[i]
                 THEN Append(F[i - 1], assets[i])
                 ELSE F[i - 1]
    IN F[Len(assets)]

\* One run of an external tool: the tool and the URLs it is given.
Invocation(t, urls) == [tool |-> t, urls |-> urls]

\* CrawlerModule.runBatchMode from processBatch on (no cancellation, the
\* tools return): nothing with no URL collected; otherwise katana once with
\* the list and, with rad in use, rad once per pending asset.
CrawlerBatchInvocations(assets, useRad) ==
    LET urlsToScan == urlsToScanOf(assets)
    IN IF Len(urlsToScan) = 0 THEN <<>>
       ELSE <<Invocation("katana", urlsToScan)>>
            \o (IF useRad
                THEN [k \in 1..Len(urlsToScan) |->
                         Invocation("rad", <<urlsToScan[k]>>)]
                ELSE <<>>)

\* DirScanModule.runBatchMode from processBatch on: spray once with the
\* list.
DirScanBatchInvocations(assets) ==
    LET urlsToScan == urlsToScanOf(assets)
    IN IF Len(urlsToScan) = 0 THEN <<>>
       ELSE <<Invocation("spray", urlsToScan)>>

runBatchMode(run) ==
    IF run.module = "Crawler"
    THEN CrawlerBatchInvocations(run.assets, run.useRad)
    ELSE DirScanBatchInvocations(run.assets)

BatchRuns ==
    {[module |-> "Crawler", assets |-> a, useRad |-> r] :
        a \in AssetRuns, r \in BOOLEAN}
    \cup {[module |-> "DirScan", assets |-> a, useRad |-> FALSE] :
             a \in AssetRuns}

\* Numbers of URLs a batch run is made with.
MaxUrlCount == 25

\* batchCrawlWithKatana: len(urls) * 3 minutes, at least 5 and at most 30
\* (in minutes).
katanaTimeout(count) ==
    LET timeout == count * 3
    IN IF timeout < 5 THEN 5
       ELSE IF timeout > 30 THEN 30
       ELSE timeout

\* DirScanModule.runBatchMode: context.WithTimeout(m.ctx, 60*time.Minute).
sprayTimeout(count) == 60

batchTimeout(run) ==
    IF run.module = "Crawler" THEN katanaTimeout(run.count)
    ELSE sprayTimeout(run.count)

\* ---- GoGoScanner.ScanPorts: the tool's output, line by line ----
\* A line of the tool's output: leading white space or not, a "[" next or
\* not, and the rest: nothing, text that is no JSON, or a JSON object with
\* the fields ip, port and status of GoGoResult.
GoGoIPs == {"10.0.0.1", "10.0.0.2"}
PortTexts == {"80", "080", "0", "x"}
StatusTexts == {"open", "closed", ""}

NoBody(kind) == [kind |-> kind, ip |-> "", port |-> "", status |-> ""]

LineBodies ==
    {NoBody("empty"), NoBody("text")}
    \cup {[kind |-> "json", ip |-> ip, port |-> port, status |-> status] :
             ip \in GoGoIPs, port \in PortTexts, status \in StatusTexts}

OutputLines ==
    {[indent |-> indent, bracket |-> bracket, body |-> body] :
        indent \in BOOLEAN, bracket \in BOOLEAN, body \in LineBodies}

\* Bound: the lines the tool writes.
MaxPortLines == 2

PortOutputs == UNION {[1..n -> OutputLines] : n \in 0..MaxPortLines}

\* strconv.Atoi
Atoi(text) ==
    CASE text = "80" -> [n |-> 80, err |-> FALSE]
      [] text = "080" -> [n |-> 80, err |-> FALSE]
      [] text = "0" -> [n |-> 0, err |-> FALSE]
      [] OTHER -> [n |-> 0, err |-> TRUE]

NoPort == [Port |-> 0, State |-> "none"]

\* convertResult: nil (NoPort) for a closed port or a port that is no
\* positive number, else the PortResult.
convertResult(gogoResult) ==
    IF gogoResult.status = "" \/ gogoResult.status = "closed" THEN NoPort
    ELSE IF Atoi(gogoResult.port).err \/ Atoi(gogoResult.port).n <= 0
         THEN NoPort
         ELSE [Port |-> Atoi(gogoResult.port).n, State |-> "open"]

\* A key made of the port as the tool wrote it.
BadPortKey(gogoResult, portResult) == <<gogoResult.ip, gogoResult.port>>

\* key := fmt.Sprintf("%s:%d", gogoResult.IP, portResult.Port)
PortKey(gogoResult, portResult) == <<gogoResult.ip, portResult.Port>>

\* One turn of the loop over the lines. ips[i] is the IP of the line that
\* Ports[i] was made from.
ScanLine(acc, text) ==
    LET \* line := strings.TrimSpace(scanner.Text())
        line == [text EXCEPT !.indent = FALSE]
        \* strings.HasPrefix(line, "[") || line == ""
        skipped == \/ ~line.indent /\ line.bracket
                   \/ ~line.indent /\ ~line.bracket /\ line.body.kind = "empty"
        \* json.Unmarshal gives no error: the line is one JSON object
        unmarshals == ~line.indent /\ ~line.bracket /\ line.body.kind = "json"
        portResult == convertResult(line.body)
        key == PortKey(line.body, portResult)
    IN  IF skipped THEN acc
        ELSE IF ~unmarshals THEN acc
        ELSE IF portResult = NoPort THEN acc
        ELSE IF key \in acc.portMap THEN acc
        ELSE [portMap |-> acc.portMap \cup {key},
              Ports |-> Append(acc.Ports, portResult),
              ips |-> Append(acc.ips, line.body.ip)]

RECURSIVE ScanLines(_, _)
ScanLines(acc, lines) ==
    IF lines = <<>> THEN acc
    ELSE ScanLines(ScanLine(acc, Head(lines)), Tail(lines))

\* ScanPorts over the lines the tool wrote: result.Ports.
ScanPorts(lines) ==
    LET end == ScanLines([portMap |-> {}, Ports |-> <<>>, ips |-> <<>>], lines)
    IN  [Ports |-> end.Ports, ips |-> end.ips]

\* ---- DSLEngine.matchRule: a fingerprint rule against a response ----
\* A rule is its Condition and its DSL expressions; of the response only
\* what evaluateDSL says of each expression matters: evals[i] is
\* evaluateDSL(rule.DSL[i], resp).
Conditions == {"", "or", "and", "AND"}

\* Bound: the DSL expressions of a rule.
MaxDSL == 3

RuleEvals == UNION {[1..n -> BOOLEAN] : n \in 0..MaxDSL}

\* strings.ToLower(rule.Condition)
ToLower(condition) == IF condition = "AND" THEN "and" ELSE condition

NoMatch == [DSLMatched |-> <<>>, Confidence |-> 0]

\* The loop over rule.DSL from expression i on: an OR rule stops at its
\* first match, an AND rule gives up at its first miss.
RECURSIVE WalkDSL(_, _, _, _)
WalkDSL(i, evals, isAnd, matchedDSLs) ==
    IF i > Len(evals) THEN [nil |-> FALSE, matchedDSLs |-> matchedDSLs]
    ELSE IF evals[i]
         THEN IF ~isAnd
              THEN [nil |-> FALSE, matchedDSLs |-> Append(matchedDSLs, i)]
              ELSE WalkDSL(i + 1, evals, isAnd, Append(matchedDSLs, i))
         ELSE IF isAnd
              THEN [nil |-> TRUE, matchedDSLs |-> matchedDSLs]
              ELSE WalkDSL(i + 1, evals, isAnd, matchedDSLs)

\* matchRule: nil (NoMatch) or the match with its confidence.
matchRule(rule) ==
    LET isAnd == ToLower(rule.Condition) = "and"
        walk == WalkDSL(1, rule.evals, isAnd, <<>>)
        n == Len(walk.matchedDSLs)
    IN  IF Len(rule.evals) = 0 THEN NoMatch
        ELSE IF walk.nil THEN NoMatch
        ELSE IF n = 0 THEN NoMatch
        ELSE [DSLMatched |-> walk.matchedDSLs,
              Confidence |-> IF isAnd /\ n = Len(rule.evals) THEN 95
                             ELSE IF n >= 2 THEN 85
                             ELSE 70]

CallInit ==
    \/ \E scanTypes \in SUBSET ScanTypeNames :
           call = CallOf("buildCustomConfig", scanTypes)
    \/ \E targets \in TargetLists : call = CallOf("parseTargets", targets)
    \/ \E cidr \in CidrTexts : call = CallOf("expandCIDR", cidr)
    \/ \E mode \in PortScanModes : call = CallOf("runPortScanMode", mode)
    \/ \E fn \in Normalizers, rawURL \in UrlStrings : call = CallOf(fn, rawURL)
    \/ \E docs \in ServicePairs : call = CallOf("CreateResultWithDedup", docs)
    \/ \E run \in BatchRuns : call = CallOf("runBatchMode", run)
    \/ \E m \in {"Crawler", "DirScan"}, n \in 1..MaxUrlCount :
           call = CallOf("batchTimeout", [module |-> m, count |-> n])
    \/ \E lines \in PortOutputs : call = CallOf("ScanPorts", lines)
    \/ \E condition \in Conditions, evals \in RuleEvals :
           call = CallOf("matchRule", [Condition |-> condition, evals |-> evals])

BuildCustomConfig ==
    /\ call.fn = "buildCustomConfig" /\ ~call.done
    /\ call' = [call EXCEPT !.done = TRUE, !.out = buildCustomConfig(call.arg)]
    /\ UNCHANGED cframe

ParseTargets ==
    /\ call.fn = "parseTargets" /\ ~call.done
    /\ call' = [call EXCEPT !.done = TRUE, !.out = parseTargets(call.arg)]
    /\ UNCHANGED cframe

ExpandCIDR ==
    /\ call.fn = "expandCIDR" /\ ~call.done
    /\ call' = IF expandCIDRPanics(call.arg)
               THEN [call EXCEPT !.done = TRUE, !.panic = TRUE]
               ELSE [call EXCEPT !.done = TRUE, !.out = expandCIDR(call.arg)]
    /\ UNCHANGED cframe

RunPortScanMode ==
    /\ call.fn = "runPortScanMode" /\ ~call.done
    /\ call' = [call EXCEPT !.done = TRUE, !.out = runPortScanMode(call.arg)]
    /\ UNCHANGED cframe

NormalizeURL ==
    /\ call.fn = "normalizeURL" /\ ~call.done
    /\ call' = [call EXCEPT !.done = TRUE, !.out = normalizeURL(call.arg)]
    /\ UNCHANGED cframe

NormalizeServiceURL ==
    /\ call.fn = "normalizeServiceURL" /\ ~call.done
    /\ call' = [call EXCEPT !.done = TRUE,
                            !.out = normalizeServiceURL(call.arg)]
    /\ UNCHANGED cframe

SaveServices ==
    /\ call.fn = "CreateResultWithDedup" /\ ~call.done
    /\ call' = [call EXCEPT !.done = TRUE, !.out = SaveAll(call.arg)]
    /\ UNCHANGED cframe

RunBatchMode ==
    /\ call.fn = "runBatchMode" /\ ~call.done
    /\ call' = [call EXCEPT !.done = TRUE, !.out = runBatchMode(call.arg)]
    /\ UNCHANGED cframe

BatchTimeout ==
    /\ call.fn = "batchTimeout" /\ ~call.done
    /\ call' = [call EXCEPT !.done = TRUE, !.out = batchTimeout(call.arg)]
    /\ UNCHANGED cframe

ScanPortsCall ==
    /\ call.fn = "ScanPorts" /\ ~call.done
    /\ call' = [call EXCEPT !.done = TRUE, !.out = ScanPorts(call.arg)]
    /\ UNCHANGED cframe

MatchRule ==
    /\ call.fn = "matchRule" /\ ~call.done
    /\ call' = [call EXCEPT !.done = TRUE, !.out = matchRule(call.arg)]
    /\ UNCHANGED cframe

CallNext ==
    \/ BuildCustomConfig
    \/ ParseTargets
    \/ ExpandCIDR
    \/ RunPortScanMode
    \/ NormalizeURL
    \/ NormalizeServiceURL
    \/ SaveServices
    \/ RunBatchMode
    \/ BatchTimeout
    \/ ScanPortsCall
    \/ MatchRule

(***************************************************************************)
(* DomainVerify: the order in which context records leave the module       *)
(***************************************************************************)
\* Bounds: the SubdomainResult records that enter, numbered in the order of
\* entry, and the capacity of the module's resultChan.
MaxRecords == 3
VerifyChanCap == 2

Records == 1..MaxRecords

\* Nothing has entered: the main loop is at its select, the forwarder at
\* its range over resultChan.
VerifyStart ==
    [next |-> 1,                          \* the next record on m.input
     todo |-> [r \in Records |-> <<>>],   \* what goroutine r has yet to send
     resultChan |-> <<>>,
     sentOn |-> <<>>,                     \* what reached the next module
     mainDone |-> FALSE, fwdDone |-> FALSE, ctxDone |-> FALSE]

VerifyIdle == verify = VerifyStart

VerifyInit == verify = VerifyStart

\* What checkSubdomain sends for a record: the SubdomainResult itself
\* first, a TakeoverResult when the takeover scan found one, and the
\* DomainResolve.
CheckSends(vulnerable) ==
    IF vulnerable
    THEN <<"SubdomainResult", "TakeoverResult", "DomainResolve">>
    ELSE <<"SubdomainResult", "DomainResolve">>

\* case data, ok := <-m.input with a SubdomainResult:
\* go func(sr) { m.checkSubdomain(sr) }(subResult)
VerifyTake ==
    /\ ~verify.mainDone /\ verify.next <= MaxRecords
    /\ \E vulnerable \in BOOLEAN :
          verify' = [verify EXCEPT !.todo[verify.next] = CheckSends(vulnerable),
                                   !.next = @ + 1]
    /\ UNCHANGED vframe

\* case <-m.ctx.Done() of the main loop.
VerifyMainCtxDone ==
    /\ ~verify.mainDone /\ verify.ctxDone
    /\ verify' = [verify EXCEPT !.mainDone = TRUE]
    /\ UNCHANGED vframe

\* checkSubdomain of record r: case m.resultChan <- ... of its next send.
CheckSend(r) ==
    /\ verify.todo[r] # <<>>
    /\ Len(verify.resultChan) < VerifyChanCap
    /\ verify' = [verify EXCEPT
                    !.resultChan = Append(@, [kind |-> Head(verify.todo[r]),
                                              id |-> r]),
                    !.todo[r] = Tail(@)]
    /\ UNCHANGED vframe

\* ... case <-m.ctx.Done(): return
CheckCtxDone(r) ==
    /\ verify.todo[r] # <<>> /\ verify.ctxDone
    /\ verify' = [verify EXCEPT !.todo[r] = <<>>]
    /\ UNCHANGED vframe

\* The forwarder: for result := range m.resultChan, sent to the next module.
VerifyForward ==
    /\ ~verify.fwdDone /\ verify.resultChan # <<>>
    /\ verify' = [verify EXCEPT !.sentOn = Append(@, Head(verify.resultChan)),
                                !.resultChan = Tail(@)]
    /\ UNCHANGED vframe

\* ... case <-m.ctx.Done(): return
VerifyForwardCtxDone ==
    /\ ~verify.fwdDone /\ verify.resultChan # <<>> /\ verify.ctxDone
    /\ verify' = [verify EXCEPT !.fwdDone = TRUE, !.resultChan = Tail(@)]
    /\ UNCHANGED vframe

\* The context is cancelled.
VerifyStop ==
    /\ ~verify.ctxDone
    /\ verify' = [verify EXCEPT !.ctxDone = TRUE]
    /\ UNCHANGED vframe

VerifyNext ==
    \/ VerifyTake
    \/ VerifyMainCtxDone
    \/ \E r \in Records : CheckSend(r)
    \/ \E r \in Records : CheckCtxDone(r)
    \/ VerifyForward
    \/ VerifyForwardCtxDone
    \/ VerifyStop

(***************************************************************************)
(* Progress tracker                                                        *)
(***************************************************************************)
\* Bounds of the tracker model.
MaxTotal == 2
MaxProcessed == 2
MaxOutput == 1

\* Module names the tracker is driven with: one that has a default weight
\* and one that has none (it gets the fallback weight).
TrackedModules == {"SubdomainScan", "Custom"}

\* DefaultModuleWeights, restricted to TrackedModules.
WeightSubdomainScan == 20
WeightDirScan == 5
FallbackWeight == 10

DefaultModuleWeights ==
    [n \in {"SubdomainScan", "DirScan"} |->
        IF n = "SubdomainScan" THEN WeightSubdomainScan ELSE WeightDirScan]

\* The zero value of a map lookup that misses: the module has no entry.
NoEntry ==
    [present |-> FALSE, status |-> "pending", total |-> 0, processed |-> 0,
     output |-> 0, pn |-> 0, pd |-> 1]

\* &ModuleProgress{Name, Status: "running", TotalItems, StartTime}.
\* Progress (a float64 percentage in the code) is kept as the exact
\* fraction pn/pd of 100 %.
FreshEntry(totalItems) ==
    [present |-> TRUE, status |-> "running", total |-> totalItems,
     processed |-> 0, output |-> 0, pn |-> 0, pd |-> 1]

\* NewProgressTracker: an empty map of entries and the default weights.
ProgressInit ==
    /\ moduleProgress = [n \in TrackedModules |-> NoEntry]
    /\ moduleWeights = DefaultModuleWeights
    /\ enabledModules = {}

\* The lists of enabled modules SetModuleWeights is called with.
EnabledLists ==
    {{"SubdomainScan"}, {"SubdomainScan", "DirScan"},
     {"SubdomainScan", "DirScan", "Custom"}}

\* SetModuleWeights: the default weights of the enabled modules, scaled to
\* a sum of 100; a module without a default weight gets no entry.  (The
\* quotients are whole numbers for the lists above.)
SetModuleWeights(enabled) ==
    LET known == enabled \cap DOMAIN DefaultModuleWeights
        totalWeight == SumOver(known, DefaultModuleWeights)
    IN
    /\ moduleWeights' =
          [n \in known |-> (DefaultModuleWeights[n] * 100) \div totalWeight]
    /\ enabledModules' = enabled
    /\ UNCHANGED <<moduleProgress, pframe>>

StartModule(moduleName, totalItems) ==
    /\ moduleProgress' = [moduleProgress EXCEPT ![moduleName] = FreshEntry(totalItems)]
    /\ UNCHANGED <<moduleWeights, enabledModules, pframe>>

UpdateModuleTotal(moduleName, totalItems) ==
    /\ moduleProgress' =
          IF moduleProgress[moduleName].present
          THEN [moduleProgress EXCEPT ![moduleName].total = totalItems]
          ELSE moduleProgress
    /\ UNCHANGED <<moduleWeights, enabledModules, pframe>>

\* A sign slip in the update of ProcessedItems.
BadProcessedAfter(mp, count) == mp.processed - count

\* mp.ProcessedItems += count

ProcessedAfter(mp, count) == mp.processed + count

IncrementModuleProcessed(moduleName, count) ==
    LET mp == moduleProgress[moduleName]
        p  == ProcessedAfter(mp, count)
    IN
    /\ p <= MaxProcessed
    /\ moduleProgress' =
          IF mp.present
          THEN [moduleProgress EXCEPT ![moduleName] =
                  IF mp.total > 0
                  THEN [mp EXCEPT !.processed = p,
                                  !.pn = Min(p, mp.total),
                                  !.pd = mp.total]
                  ELSE [mp EXCEPT !.processed = p]]
          ELSE moduleProgress
    /\ UNCHANGED <<moduleWeights, enabledModules, pframe>>

IncrementModuleOutput(moduleName, count) ==
    LET mp == moduleProgress[moduleName] IN
    /\ mp.output + count <= MaxOutput
    /\ moduleProgress' =
          IF mp.present
          THEN [moduleProgress EXCEPT ![moduleName].output = mp.output + count]
          ELSE moduleProgress
    /\ UNCHANGED <<moduleWeights, enabledModules, pframe>>

CompleteModule(moduleName) ==
    LET mp == moduleProgress[moduleName] IN
    /\ moduleProgress' =
          IF mp.present
          THEN [moduleProgress EXCEPT ![moduleName] =
                  [mp EXCEPT !.status = "completed", !.pn = 1, !.pd = 1]]
          ELSE moduleProgress
    /\ UNCHANGED <<moduleWeights, enabledModules, pframe>>

\* weight, ok := pt.moduleWeights[moduleName]; if !ok { weight = 10 }
WeightOf(moduleName) ==
    IF moduleName \in DOMAIN moduleWeights
    THEN moduleWeights[moduleName]
    ELSE FallbackWeight

\* calculateOverallProgress over a tracker map mpMap:
\*   int(sum(Progress/100 * weight) / sum(weight) * 100), at most 100,
\* computed exactly: the fractions are brought to the common denominator D.
OverallOf(mpMap) ==
    LET active == {n \in TrackedModules : mpMap[n].present}
        activeWeight == SumOver(active, [n \in active |-> WeightOf(n)])
        D == ProdOver(active, [n \in active |-> mpMap[n].pd])
        num == SumOver(active,
                 [n \in active |-> WeightOf(n) * mpMap[n].pn * (D \div mpMap[n].pd)])
    IN IF activeWeight = 0 THEN 0
       ELSE Min(100, (100 * num) \div (D * activeWeight))

calculateOverallProgress == OverallOf(moduleProgress)

ProgressNext ==
    \/ \E enabled \in EnabledLists : SetModuleWeights(enabled)
    \/ \E n \in TrackedModules, t \in 0..MaxTotal : StartModule(n, t)
    \/ \E n \in TrackedModules, t \in 0..MaxTotal : UpdateModuleTotal(n, t)
    \/ \E n \in TrackedModules : IncrementModuleProcessed(n, 1)
    \/ \E n \in TrackedModules : IncrementModuleOutput(n, 1)
    \/ \E n \in TrackedModules : CompleteModule(n)

Init == PipelineInit /\ ProgressInit /\ DedupIdle /\ SinkIdle /\ MonitorInit
    /\ ToolIdle
    /\ CallIdle
    /\ VerifyIdle
    /\ ExecIdle
    /\ NotifyIdle
    /\ MultiIdle
    /\ EngineIdle

Spec ==
    /\ Init
    /\ [][PipelineNext]_vars

\* The chain under the Go scheduler: a goroutine that can take a step
\* eventually takes one.  Cancellation is left to the environment.
FairSpec == Spec /\ WF_vars(Run)

resultsClosed == inClosed[Terminal]

\* C1: in a run that is never cancelled (all external work returns), the
\* closing of the inputs cascades down the chain and the result stream is
\* eventually closed.
C1_UncancelledRunClosesResults == <>(cancelled \/ resultsClosed)

\* C2: after stop(), whatever state the pipeline is in, the result stream
\* is eventually closed.
C2_StopClosesResults == cancelled ~> resultsClosed

\* Module i has taken an AssetHttp off its input in batch mode and has not
\* yet gone on from it.
HoldsAsset(i) ==
    /\ mod[i].pc = "forward"
    /\ mod[i].hold \in {"AssetHttp", AssetHttpNoURL}

\* C23: in batch mode, the first thing a module does with an AssetHttp it
\* has received is to send it to the next module: in a run that is not
\* cancelled the module's next step puts the record on the successor's
\* input, so it neither reads on (and sees its input closed) nor invokes
\* its tool before the record is forwarded.
C23_AssetForwardedBeforeAnythingElse ==
    [][\A i \in Positions :
          (HoldsAsset(i) /\ ~cancelled /\ mod'[i] # mod[i])
          => /\ input' = SendTo(i + 1, mod[i].hold)
             /\ mod'[i].pc = "collect"]_vars

\* A batch-mode module has forwarded an asset, seen its input closed and
\* invoked its tool, in a run that was not cancelled.
C23_Witness ==
    /\ ~cancelled
    /\ \E i \in Positions :
          /\ i + 1 <= NModules
          /\ chain[i].batchMode /\ mod[i].pc = "emit"
          /\ mod[i].urlsToScan # {}
          /\ mod[i + 1].pc # "idle"

\* C26: in every module the work goroutines running at the same time are
\* never more than the configured concurrency.
C26_WorkersWithinConcurrency ==
    \A i \in Positions : Cardinality(Running(i)) <= Concurrency

\* C36: in the Crawler's batch mode with rad, every UrlResult made from
\* rad's output has been delivered to the next module when the Crawler
\* closes the next module's input: none is left in the module's resultChan.
C36_RadResultsDeliveredBeforeClose ==
    \A i \in Positions :
        (/\ chain[i].name = "Crawler" /\ chain[i].rad /\ ~IsStream(i)
         /\ ~cancelled
         /\ mod[i].pc = "waitNext" /\ inClosed[i + 1])
        => mod[i].resultChan = <<>>

\* The step is one in which module i calls m.nextModule.CloseInput().
ClosesNextInput(i) ==
    \/ CrawlerSkip(i)
    \/ ForwarderClose(i)
    \/ BatchCtxDone(i)
    \/ BatchInputClosedEmpty(i)
    \/ BatchEmitDone(i) /\ mod'[i].pc = "waitNext"
    \/ BatchRadDone(i)

\* In this step no module sends on or closes a closed channel: resultChan
\* is not closed a second time, is closed only with every worker goroutine
\* gone and is not sent on afterwards; the input of a successor module is
\* not closed a second time and is not sent to once closed.
NoUseOfClosedChannel ==
    \A i \in Positions :
        /\ StreamWaitWorkers(i) => ~mod[i].resClosed
        /\ (~mod[i].resClosed /\ mod'[i].resClosed) => mod[i].workers = <<>>
        /\ mod[i].resClosed
              => Len(mod'[i].resultChan) <= Len(mod[i].resultChan)
        /\ i + 1 <= NModules =>
              /\ ClosesNextInput(i) => ~inClosed[i + 1]
              /\ inClosed[i + 1] => Len(input'[i + 1]) <= Len(input[i + 1])

\* In this step a module that has run returns only with its resultChan
\* closed.
ReturnsWithResultChanClosed ==
    \A i \in Positions :
        (mod[i].pc # "returned" /\ mod'[i].pc = "returned" /\ ~mod'[i].skipped)
            => mod'[i].resClosed

AtRest == ~ENABLED Run

\* Every started goroutine of module i has returned.
Returned(i) ==
    /\ mod[i].pc \in {"idle", "returned"}
    /\ mod[i].fpc \in {"idle", "done"}
    /\ mod[i].workers = <<>>

\* C3: every blocking send and receive of a module also watches the
\* context, so once the context is cancelled no goroutine of a module stays
\* blocked: when nothing can move any more, every goroutine has returned.
C3_NoGoroutineBlockedAfterCancel ==
    (cancelled /\ AtRest) => \A i \in 1..NModules : Returned(i)

\* C4: a module whose tool is not available is skipped, and the modules
\* after it still run and receive what reached the skipped module: when an
\* uncancelled run has come to rest, the successor of a skipped module has
\* been started and no record is left in the skipped module's input.
C4_SkippedModuleKeepsDownstreamRunning ==
    (~cancelled /\ AtRest) =>
        \A i \in 1..NModules :
            mod[i].skipped =>
                /\ input[i] = <<>>
                /\ i + 1 <= NModules => mod[i + 1].pc # "idle"

\* C5: a module emits to its successor exactly the records it received of
\* a variant it does not consume: once ModuleRun has returned in an
\* uncancelled run, as many pass-through records were sent as received.
C5_PassThroughPreserved ==
    \A i \in 1..NModules :
        (mod[i].pc = "returned" /\ ~cancelled) => mod[i].sent = mod[i].recvd

InitProgress == ProgressInit /\ PipelineIdle /\ DedupIdle /\ SinkIdle /\ MonitorInit
    /\ ToolIdle
    /\ CallIdle
    /\ VerifyIdle
    /\ ExecIdle
    /\ NotifyIdle
    /\ MultiIdle
    /\ EngineIdle

SpecProgress ==
    /\ InitProgress
    /\ [][ProgressNext]_vars

InitDedup == DedupInit /\ PipelineIdle /\ ProgressInit /\ SinkIdle /\ MonitorInit
    /\ ToolIdle
    /\ CallIdle
    /\ VerifyIdle
    /\ ExecIdle
    /\ NotifyIdle
    /\ MultiIdle
    /\ EngineIdle

SpecDedup ==
    /\ InitDedup
    /\ [][DedupNext]_vars

Emitted(h) == Count(scan.emitted, h)

\* C7: a hostname that both the brute force and the API source delivered
\* to the subdomain step has been emitted downstream exactly once when the
\* scan has ended without cancellation.
C7_OneResultPerHostname ==
    \A h \in Hosts :
        (/\ scan.pc = "done" /\ ~scan.ctxDone
         /\ \A s \in Sources : h \in scan.src[s].delivered)
        => Emitted(h) = 1

\* The discovery events the sources delivered to the subdomain step, and
\* the hostnames among them.
DiscoveryEvents ==
    LET S[T \in SUBSET Sources] ==
            IF T = {} THEN 0
            ELSE LET s == CHOOSE x \in T : TRUE
                 IN Cardinality(scan.src[s].delivered) + S[T \ {s}]
    IN S[Sources]

DiscoveredHosts == UNION {scan.src[s].delivered : s \in Sources}

\* The scan has ended uncancelled and every result it emitted has gone
\* through the forwarder and the executor's result loop.
ScanSettled ==
    /\ scan.pc = "done" /\ ~scan.ctxDone
    /\ scan.sentOn = Len(scan.emitted)
    /\ scan.counted = scan.sentOn

\* C22: when two sources reported the same hostname to the subdomain step,
\* the module's processed counter counts every discovery event and its
\* output counter counts each hostname once.
C22_EventsProcessedHostsOutput ==
    (/\ ScanSettled
     /\ \E h \in Hosts : \A s \in Sources : h \in scan.src[s].delivered)
    => /\ scan.processed = DiscoveryEvents
       /\ scan.output = Cardinality(DiscoveredHosts)

\* C35: with HTTP probing enabled and no cancellation, when the scan has
\* ended every hostname the duplicate checker accepted has been emitted
\* downstream exactly once.
C35_AcceptedHostsEmittedOnce ==
    (scan.enableHTTPProbe /\ scan.pc = "done" /\ ~scan.ctxDone)
        => \A h \in scan.subdomains : Emitted(h) = 1

\* The key a record is deduplicated by: the hostname of a SubdomainResult,
\* the normalized output of a UrlResult.
DedupKey(rec) ==
    IF rec.kind = "url" THEN normalizeServiceURL(rec.key) ELSE rec.key

InitSink == SinkInit /\ PipelineIdle /\ ProgressInit /\ DedupIdle /\ MonitorInit
    /\ ToolIdle
    /\ CallIdle
    /\ VerifyIdle
    /\ ExecIdle
    /\ NotifyIdle
    /\ MultiIdle
    /\ EngineIdle

SpecSink ==
    /\ InitSink
    /\ [][SinkNext]_vars

RowsKeyed(type, key) ==
    {k \in 1..Len(rows) : rows[k].type = type /\ rows[k].key = key}

\* C8: for every record with a non-empty dedup key k that a write was
\* accepted for, the sink holds exactly one row keyed by (task, kind, k),
\* and that row has the contents of the most recently accepted record for
\* the key.
C8_OneRowPerKeyWithLatestContents ==
    \A a \in lastAccepted :
        a.key # <<>> =>
            /\ Cardinality(RowsKeyed(a.type, a.key)) = 1
            /\ \A k \in RowsKeyed(a.type, a.key) : rows[k].payload = a.payload

\* The tracker's entry of a module of the run; a module that has not been
\* started has none and its progress is 0.
EntryOf(n) == IF n \in TrackedModules THEN moduleProgress[n] ELSE NoEntry

\* sum(progress_i * weight_i) / sum(weight_i) over the modules of E, as a
\* whole percentage, with the default weights.
WeightedMeanOver(E) ==
    LET D == ProdOver(E, [n \in E |-> EntryOf(n).pd])
        num == SumOver(E, [n \in E |->
                 DefaultModuleWeights[n] * EntryOf(n).pn * (D \div EntryOf(n).pd)])
        den == SumOver(E, [n \in E |-> DefaultModuleWeights[n]])
    IN (100 * num) \div (D * den)

\* C11: once the weights are set for the enabled modules (all of them with
\* a default weight) and only enabled modules have been started, the
\* overall percentage is the weighted mean of the per-module progress over
\* the enabled modules.
C11_OverallIsWeightedMeanOverEnabled ==
    (/\ enabledModules # {}
     /\ enabledModules \subseteq DOMAIN DefaultModuleWeights
     /\ \A n \in TrackedModules : moduleProgress[n].present => n \in enabledModules)
    => calculateOverallProgress = WeightedMeanOver(enabledModules)

\* C17: a record is dropped only after its write has been attempted three
\* times: a save whose write failed has been retried up to the third
\* attempt before the record is given up.
C17_DroppedOnlyAfterThreeAttempts ==
    (lastWrite.attempts > 0 /\ ~lastWrite.saved) => lastWrite.attempts = 3

InitMonitor ==
    /\ MonitorInit /\ PipelineIdle /\ ProgressInit /\ DedupIdle /\ SinkIdle
    /\ ToolIdle
    /\ CallIdle
    /\ VerifyIdle
    /\ ExecIdle
    /\ NotifyIdle
    /\ MultiIdle
    /\ EngineIdle

SpecMonitor ==
    /\ InitMonitor
    /\ [][MonitorNext]_vars

\* The ticker fires every 2 s for as long as the executor runs, and a
\* started check goes through its list.
FairSpecMonitor == SpecMonitor /\ WF_vars(MonitorStep)

\* C12: a task that is deleted, paused or cancelled in the store while its
\* pipeline is registered as running leads to that pipeline's context being
\* cancelled (or to the pipeline having ended by itself before the poll).
C12_MonitorTripsToken ==
    \A t \in Tasks :
        (t \in runningTasks /\ taskStatus[t] \in {"deleted", "paused", "cancelled"})
            ~> (ctxDone[t] \/ t \notin runningTasks)

C12_Witness ==
    \E t \in Tasks :
        t \in runningTasks /\ taskStatus[t] = "paused" /\ ctxDone[t]

\* C30: a task that is paused, cancelled or deleted by the time its
\* pipeline's result stream ends is never marked completed afterwards.
C30_HaltedTaskNeverCompleted ==
    \A t \in Tasks :
        endStatus[t] \in {"paused", "cancelled", "deleted"}
            => taskStatus[t] # "completed"

\* C32: every task that a worker started executing is left in a
\* non-running status: when executeStreamingPipeline has returned, the task
\* is completed or failed, or cancelled, paused or deleted, also when the
\* return follows the expiry of the 24-hour context.
C32_ExecutedTaskLeftNonRunning ==
    \A t \in Tasks : phase[t] = "returned" => taskStatus[t] # "running"

InitTool ==
    /\ ToolInit /\ PipelineIdle /\ ProgressInit /\ DedupIdle /\ SinkIdle
    /\ MonitorInit
    /\ CallIdle
    /\ VerifyIdle
    /\ ExecIdle
    /\ NotifyIdle
    /\ MultiIdle
    /\ EngineIdle

SpecTool ==
    /\ InitTool
    /\ [][ToolNext]_vars

\* C13: when the cancellation killed the running tool, what the tool had
\* written to its output before is parsed and emitted, once the module is
\* through with the run.
C13_OutputBeforeCancelIsEmitted ==
    (tool.pc = "done" /\ tool.cause = "cancel") => tool.emitted = tool.file

\* C14: when the tool failed mid-run or was stopped at its deadline (and
\* the run is not cancelled), what it had written is parsed and emitted,
\* once the module is through with the run.
C14_OutputOfFailedOrExpiredToolIsEmitted ==
    (/\ tool.pc = "done" /\ ~tool.cancelled
     /\ tool.cause \in {"failure", "deadline"})
    => tool.emitted = tool.file

InitCall ==
    /\ CallInit /\ PipelineIdle /\ ProgressInit /\ DedupIdle /\ SinkIdle
    /\ MonitorInit /\ ToolIdle
    /\ VerifyIdle
    /\ ExecIdle
    /\ NotifyIdle
    /\ MultiIdle
    /\ EngineIdle

SpecCall ==
    /\ InitCall
    /\ [][CallNext]_vars

\* The DomainVerify run on its own.
InitVerify ==
    /\ VerifyInit /\ PipelineIdle /\ ProgressInit /\ DedupIdle /\ SinkIdle
    /\ MonitorInit /\ ToolIdle /\ CallIdle
    /\ ExecIdle
    /\ NotifyIdle
    /\ MultiIdle
    /\ EngineIdle

SpecVerify == InitVerify /\ [][VerifyNext]_vars

\* The SubdomainResult records that reached the next module, in the order
\* in which they reached it.
PassedThrough == SelectSeq(verify.sentOn, LAMBDA m : m.kind = "SubdomainResult")

\* C27: pass-through context records leave a module in the order in which
\* they entered it: of two SubdomainResult records that DomainVerify sent
\* on, the one that entered first was sent on first.
C27_PassThroughKeepsEntryOrder ==
    \A i, j \in 1..Len(PassedThrough) :
        i < j => PassedThrough[i].id < PassedThrough[j].id

\* The workers and the queue on their own.
InitExec ==
    /\ ExecInit /\ PipelineIdle /\ ProgressInit /\ DedupIdle /\ SinkIdle
    /\ MonitorInit /\ ToolIdle /\ CallIdle /\ VerifyIdle
    /\ NotifyIdle
    /\ MultiIdle
    /\ EngineIdle

SpecExec == InitExec /\ [][ExecNext]_vars

\* The workers that are executing task t.
Executing(t) ==
    {k \in Workers : exec.w[k].task = t
                       /\ exec.w[k].pc \in {"processing", "collecting"}}

\* C31: a task id is executed by at most one worker at a time, and the
\* registry entry of an execution that has registered is its own: it has
\* been neither removed nor replaced by another execution.
C31_OneExecutionPerTask ==
    /\ \A t \in Tasks : Cardinality(Executing(t)) <= 1
    /\ \A k \in Workers :
           exec.w[k].pc = "collecting" => exec.runningTasks[exec.w[k].task] = k

\* The progress callbacks on their own.
InitNotify ==
    /\ NotifyInit /\ PipelineIdle /\ ProgressInit /\ DedupIdle /\ SinkIdle
    /\ MonitorInit /\ ToolIdle /\ CallIdle /\ VerifyIdle /\ ExecIdle
    /\ MultiIdle
    /\ EngineIdle

SpecNotify == InitNotify /\ [][NotifyNext]_vars

\* C33: once the executor has marked the task completed with progress
\* 100, no progress callback still in flight lowers the stored progress.
C33_CompletedKeepsProgress100 ==
    notify.status = "completed" => notify.progress = 100

\* The scans of several targets on their own.
InitMulti ==
    /\ MultiInit /\ PipelineIdle /\ ProgressInit /\ DedupIdle /\ SinkIdle
    /\ MonitorInit /\ ToolIdle /\ CallIdle /\ VerifyIdle /\ ExecIdle
    /\ NotifyIdle
    /\ EngineIdle

SpecMulti == InitMulti /\ [][MultiNext]_vars

\* C34: every emitted SubdomainResult carries as root_domain the target
\* whose scan discovered its hostname.
C34_RootDomainIsDiscoveringTarget ==
    \A r \in multi.emitted : r.RootDomain = r.Host[2]

\* The calls on one DSL engine on their own.
InitEngine ==
    /\ EngineInit /\ PipelineIdle /\ ProgressInit /\ DedupIdle /\ SinkIdle
    /\ MonitorInit /\ ToolIdle /\ CallIdle /\ VerifyIdle /\ ExecIdle
    /\ NotifyIdle /\ MultiIdle

SpecEngine == InitEngine /\ [][EngineNext]_vars

\* C39: concurrent AnalyzeResponse calls never write shared engine state
\* without exclusive access: a goroutine about to write the compiled-regex
\* cache holds the write lock.
C39_CacheWrittenOnlyUnderLock ==
    \A g \in Goroutines : engine.pc[g] = "store" => engine.writer = g

\* C15: the configuration built for a selection of scan types enables every
\* stage a selected type implies: takeover implies subdomain; crawler,
\* dirscan, vuln and sensitive each imply port and fingerprint; fingerprint
\* implies port.
C15_ImpliedStagesEnabled ==
    (call.fn = "buildCustomConfig" /\ call.done) =>
        LET scanTypes == call.arg
            config == call.out
        IN
        /\ "takeover" \in scanTypes => config.SubdomainScan
        /\ "fingerprint" \in scanTypes => config.PortScan
        /\ (scanTypes \cap {"crawler", "dir_scan", "vuln_scan", "sensitive"} # {})
              => (config.PortScan /\ config.Fingerprint)

\* C16: a configuration error is not scanned with: an invalid CIDR target
\* does not come out of target parsing as a target to scan, and a port-scan
\* mode the switch does not know selects no scan.
C16_ConfigurationErrorIsNotScanned ==
    /\ (call.fn = "parseTargets" /\ call.done) =>
           \A i \in 1..Len(call.arg) :
               (ContainsSlash(call.arg[i]) /\ ParseCIDR(call.arg[i]).err)
                  => \A j \in 1..Len(call.out) : call.out[j] # call.arg[i]
    /\ (call.fn = "runPortScanMode" /\ call.done) =>
           (call.arg \notin KnownModes \cup {""}
               => call.out \notin ScannerMethods)

\* C18: URL normalization is idempotent: normalizing the result of a
\* normalization again changes nothing, for either normalizer and every
\* URL string.
C18_NormalizeIsIdempotent ==
    /\ (call.fn = "normalizeURL" /\ call.done)
           => normalizeURL(call.out) = call.out
    /\ (call.fn = "normalizeServiceURL" /\ call.done)
           => normalizeServiceURL(call.out) = call.out

\* A URL of the form scheme, host, port, path.
HasSchemeHostPortPath(u) ==
    /\ Len(u) = 4
    /\ u[1] \in {"https://", "http://"}
    /\ u[2] = "x"
    /\ u[3] \in {":443", ":80", ":8080"}
    /\ IsPath(u[4])

\* The default port of a scheme.
DefaultPortOf(scheme) == IF scheme = "https://" THEN ":443" ELSE ":80"

\* C19: normalization removes the port of a URL when it is the default port
\* of the URL's scheme (":80" on http, ":443" on https) and keeps a port
\* that is not the default for the URL's scheme.
C19_RemovesDefaultPortOfSchemeOnly ==
    (call.fn \in Normalizers /\ call.done /\ HasSchemeHostPortPath(call.arg))
    => LET u == call.arg
       IN call.out = IF u[3] = DefaultPortOf(u[1])
                     THEN <<u[1], u[2], u[4]>>
                     ELSE u

\* A URL of host x that has no port or the default port of its scheme.
HasNoOrDefaultPort(u) ==
    /\ Len(u) \in {3, 4}
    /\ u[1] \in {"https://", "http://"}
    /\ u[2] = "x"
    /\ Len(u) = 4 => u[3] = DefaultPortOf(u[1])

\* C20: two HTTP service records of one task whose URLs are for the same
\* host and differ only in scheme and default port (https://x:443/ and
\* http://x:80/) get the same dedup_host and end up as a single service
\* row, which holds the later record.
C20_SchemeAndDefaultPortCollapse ==
    (/\ call.fn = "CreateResultWithDedup" /\ call.done
     /\ HasNoOrDefaultPort(call.arg[1].url)
     /\ HasNoOrDefaultPort(call.arg[2].url))
    => /\ extractHostFromURL(call.arg[1].url)
            = extractHostFromURL(call.arg[2].url)
       /\ Len(call.out) = 1
       /\ call.out[1] = RowOf(call.arg[2])

\* https://x:443/ and then http://x:80/ have been saved.
C20_Witness ==
    /\ call.fn = "CreateResultWithDedup" /\ call.done
    /\ call.arg[1].url = <<"https://", "x", ":443", "/">>
    /\ call.arg[2].url = <<"http://", "x", ":80", "/">>
    /\ call.arg[1].payload # call.arg[2].payload
    /\ Len(call.out) = 1

\* Order of two addresses, octet by octet.
IPBefore(a, b) == IPToInt(a) < IPToInt(b)

\* C21: a CIDR /n with 32 - n <= 16 expands to exactly 2^(32-n) host
\* strings, all different and in ascending address order (hence all inside
\* the network, which starts at its masked base); a CIDR with 32 - n > 16
\* comes back as the one unchanged CIDR string.
C21_ExpansionIsCompleteOrderedAndCapped ==
    (call.fn = "expandCIDR" /\ call.done /\ call.arg[3] <= 32) =>
        LET n == call.arg[3]
            out == call.out
        IN IF 32 - n <= 16
           THEN /\ Len(out) = Pow2(32 - n)
                /\ out[1] = ParseCIDR(call.arg).ip
                /\ \A i \in 1..(Len(out) - 1) : IPBefore(out[i], out[i + 1])
           ELSE out = <<call.arg>>

\* A /16 has been expanded across octet boundaries to its last address.
C21_Witness ==
    /\ call.fn = "expandCIDR" /\ call.done
    /\ call.arg = <<<<10, 0, 255, 254>>, "/", 16>>
    /\ Len(call.out) = 65536
    /\ call.out[65536] = <<10, 0, 255, 255>>

\* C40: for every syntactically valid CIDR target, IPv6 prefixes
\* included, expandCIDR does not panic and returns a non-empty list.
C40_ValidCIDRGivesNonEmptyList ==
    (call.fn = "expandCIDR" /\ call.done /\ ~ParseCIDR(call.arg).err)
        => (~call.panic /\ call.out # <<>>)

\* The distinct non-empty URLs among the assets of a run.
CollectedUrls(assets) == {assets[k] : k \in 1..Len(assets)} \ {""}

\* C24: a batch run that collected at least one URL invokes an external
\* tool exactly once, and the invocation is given each distinct collected
\* URL exactly once.
C24_ToolInvokedOnceWithEachUrlOnce ==
    (/\ call.fn = "runBatchMode" /\ call.done
     /\ CollectedUrls(call.arg.assets) # {})
    => /\ Len(call.out) = 1
       /\ \A u \in CollectedUrls(call.arg.assets) :
             Cardinality({k \in 1..Len(call.out[1].urls) :
                             call.out[1].urls[k] = u}) = 1
       /\ Len(call.out[1].urls) = Cardinality(CollectedUrls(call.arg.assets))

Max(a, b) == IF a > b THEN a ELSE b

\* C25: the deadline of the batch tool run is max(5 min, 3 min x url_count),
\* capped at 30 min for the Crawler and at 60 min for DirScan.
C25_BatchDeadline ==
    (call.fn = "batchTimeout" /\ call.done) =>
        call.out = Min(Max(5, 3 * call.arg.count),
                       IF call.arg.module = "Crawler" THEN 30 ELSE 60)

\* The line begins with "[" as the tool wrote it.
BeginsWithBracket(text) == ~text.indent /\ text.bracket

\* C28: the port-scanner wrapper ignores every line that begins with "["
\* (the result is the one of the output without these lines) and yields at
\* most one port record per (ip, port) pair.
C28_BracketLinesIgnoredOnePortPerPair ==
    (call.fn = "ScanPorts" /\ call.done) =>
        /\ call.out = ScanPorts(SelectSeq(call.arg,
                                  LAMBDA text : ~BeginsWithBracket(text)))
        /\ \A i, j \in 1..Len(call.out.Ports) :
               (/\ call.out.ips[i] = call.out.ips[j]
                /\ call.out.Ports[i].Port = call.out.Ports[j].Port) => i = j

\* The tool reported the same open port of the same IP on two lines, once
\* as 80 and once as 080, and one record came out.
C28_Witness ==
    /\ call.fn = "ScanPorts" /\ call.done
    /\ Len(call.arg) = 2
    /\ \A k \in 1..2 : /\ ~call.arg[k].indent /\ ~call.arg[k].bracket
                        /\ call.arg[k].body.kind = "json"
                        /\ call.arg[k].body.status = "open"
                        /\ call.arg[k].body.ip = "10.0.0.1"
    /\ call.arg[1].body.port = "80" /\ call.arg[2].body.port = "080"
    /\ Len(call.out.Ports) = 1

\* The expressions of the rule that match the response.
MatchingDSLs(rule) == {i \in 1..Len(rule.evals) : rule.evals[i]}

\* C29: a matched rule is reported with confidence 95 when it is an AND
\* rule all of whose expressions matched, else with 85 when two or more of
\* its expressions matched, and with 70 when exactly one matched.
C29_ConfidenceByMatchCount ==
    (call.fn = "matchRule" /\ call.done /\ call.out # NoMatch) =>
        LET n == Cardinality(MatchingDSLs(call.arg))
            allOfAnd == /\ ToLower(call.arg.Condition) = "and"
                        /\ n = Len(call.arg.evals)
        IN  call.out.Confidence = IF allOfAnd THEN 95
                                  ELSE IF n >= 2 THEN 85
                                  ELSE 70

IsStartOf(n) == \E t \in 0..MaxTotal : StartModule(n, t)

CompletedAt100(mp) == mp.present /\ mp.status = "completed" /\ mp.pn = mp.pd

\* C38: once a module has been marked completed in the progress tracker,
\* its status stays completed and its progress stays 100, whatever tracker
\* event follows.
C38_CompletedStaysCompleted ==
    [][\A n \in TrackedModules :
          CompletedAt100(moduleProgress[n]) => CompletedAt100(moduleProgress'[n])]_vars

\* The events other than module_start: a completed module whose
\* processed count is raised stays at progress 100.
CompletedKeepsProgressOnIncrement ==
    [][\A n \in TrackedModules :
          (CompletedAt100(moduleProgress[n]) /\ IncrementModuleProcessed(n, 1))
              => moduleProgress'[n].pn = moduleProgress'[n].pd]_vars

\* C10: the overall progress never decreases, whatever tracker event
\* happens (module_start, module_total_update, processed_inc, output_inc,
\* module_complete).
C10_OverallNeverDecreases ==
    [][OverallOf(moduleProgress') >= OverallOf(moduleProgress)]_vars

====
